---- MODULE Spec2Model ----
(***************************************************************************)
(* Model of the modi dependency-injection runtime                          *)
(* (src/src/modi/di/container.py, decorators.py, application.py).          *)
(*                                                                         *)
(* A program declares provider classes (constructor parameters, declared   *)
(* scope) and modules (providers, imports, exports, global flag), creates  *)
(* application facades with AppFactory.create(root) and calls app.get(cls).*)
(* ModuleContainer.resolve is modelled statement by statement: a call      *)
(* chain is a sequence of resolve frames, each with a program position.    *)
(***************************************************************************)
EXTENDS Integers, Sequences, FiniteSets, TLC

(***************************************************************************)
(* Bounds                                                                  *)
(***************************************************************************)
\* number of top-level app.get calls the client program makes
MaxGets == 3
\* depth of the call chain of register_module at which the interpreter
\* raises RecursionError (sys.getrecursionlimit() is 1000 by default)
MaxWalk == 6

(***************************************************************************)
(* Declarations: decorators.py                                             *)
(***************************************************************************)
SINGLETON == "singleton"
TRANSIENT == "transient"
REQUEST == "request"
\* a class listed as a provider that carries no _scope attribute
NoScope == "unset"
Scope == {SINGLETON, TRANSIENT, REQUEST}

\* A client program p declares classes (provider identities) and modules:
\*   p.params[c]  the parameters of c.__init__ after self, in order
\*   p.scope[c]   the attribute c._scope, or NoScope
\*   p.name[c]    c.__name__
\*   p.mods[m]    the attributes @module sets on m
\*   p.root       the module passed to AppFactory.create
ClassesOf(p) == DOMAIN p.params

\* cls.__name__
ClassName(p, c) == p.name[c]

\* a constructor parameter: its annotation is a class, a string (forward
\* reference) or empty; hasDefault tells whether the parameter has a default
Direct(c) == [kind |-> "cls", ref |-> c, hasDefault |-> FALSE]
Forward(s) == [kind |-> "fwd", ref |-> s, hasDefault |-> FALSE]
DirectDefault(c) == [kind |-> "cls", ref |-> c, hasDefault |-> TRUE]
ForwardDefault(s) == [kind |-> "fwd", ref |-> s, hasDefault |-> TRUE]
Plain == [kind |-> "none", ref |-> "", hasDefault |-> FALSE]
PlainDefault == [kind |-> "none", ref |-> "", hasDefault |-> TRUE]

\* @injectable(scope): the class attribute _scope
injectable(scope) == scope

\* @module(providers, imports, exports, global_): the class attributes
module(providers, imports, exports, global_) ==
    [providers |-> providers, imports |-> imports, exports |-> exports,
     is_global |-> global_, is_module |-> TRUE]

(***************************************************************************)
(* Values                                                                  *)
(***************************************************************************)
\* Python None; also the value of a constructor argument left unbound
None == <<>>
NoExc == [type |-> "none", msg |-> "", name |-> ""]
CircularDependencyError(class_name) ==
    [type |-> "RuntimeError", msg |-> "Circular dependency detected", name |-> class_name]
UnregisteredProviderError(class_name) ==
    [type |-> "ValueError", msg |-> "Provider not registered", name |-> class_name]
UnresolvableForwardReferenceError(s) ==
    [type |-> "ValueError", msg |-> "Cannot resolve forward reference", name |-> s]
InvalidModuleError(module_name) ==
    [type |-> "ValueError", msg |-> "is not a module", name |-> module_name]
\* the interpreter's error when a call chain exceeds the recursion limit
RecursionError ==
    [type |-> "RecursionError", msg |-> "maximum recursion depth exceeded", name |-> ""]
\* cls(**kwargs) with a required parameter missing
ConstructorError(class_name) ==
    [type |-> "TypeError", msg |-> "missing required argument", name |-> class_name]

(***************************************************************************)
(* Python dict with insertion order: a sequence of [key, val] entries      *)
(***************************************************************************)
DictKeys(d) == {d[k].key : k \in 1..Len(d)}
DictHas(d, key) == key \in DictKeys(d)
DictGet(d, key) == d[CHOOSE k \in 1..Len(d) : d[k].key = key].val
DictSet(d, key, val) ==
    IF DictHas(d, key)
    THEN [k \in 1..Len(d) |-> IF d[k].key = key THEN [key |-> key, val |-> val] ELSE d[k]]
    ELSE Append(d, [key |-> key, val |-> val])

(***************************************************************************)
(* State                                                                   *)
(***************************************************************************)
VARIABLES
    prog,             \* prog[f]: the declarations facade f is created from
    app,              \* app[f]: "none", "booting", "ready" (create returned), "failed"
    walk,             \* walk[f]: the call chain of register_module during create
    raised,           \* raised[f]: the exception create raised, or NoExc
    provider_configs, \* provider_configs[f]: dict class -> [scope, module]
    singletons,       \* singletons[f]: function class -> instance
    modules,          \* modules[f]: function module -> module instance
    global_exports,   \* global_exports[f]: set of classes
    resolving_stack,  \* resolving_stack[f]: set of classes
    heap,             \* heap[f]: the instances constructed through facade f
    chain,            \* chain[t]: the call chain of thread t
    log               \* log[f]: the top-level get calls that completed

vars == <<prog, app, walk, raised, provider_configs, singletons, modules, global_exports,
          resolving_stack, heap, chain, log>>

Facades == DOMAIN prog
Threads == DOMAIN chain

Idle == [app |-> 0, frames |-> <<>>]

\* the container after ModuleContainer.__init__
EmptyContainer ==
    [provider_configs |-> <<>>, modules |-> <<>>, global_exports |-> {}]

(***************************************************************************)
(* Registry: ModuleContainer.register_module                               *)
(***************************************************************************)
\* _register_provider
RegisterProvider(r, cls, scope, module_cls) ==
    [r EXCEPT !.provider_configs =
        DictSet(@, cls, [scope |-> scope, module |-> module_cls])]

\* a provider that declares no scope is registered as Transient
DeclaredScopeTransient(p, cls) ==
    IF p.scope[cls] = NoScope THEN TRANSIENT ELSE p.scope[cls]

\* getattr(provider, '_scope', Scope.SINGLETON)
DeclaredScope(p, cls) ==
    IF p.scope[cls] = NoScope THEN SINGLETON ELSE p.scope[cls]

\* the loop over module_cls._providers
RECURSIVE RegisterProviders(_, _, _, _)
RegisterProviders(r, p, m, k) ==
    IF k > Len(p.mods[m].providers) THEN r
    ELSE LET cls == p.mods[m].providers[k]
             r1 == RegisterProvider(r, cls, DeclaredScope(p, cls), m)
             r2 == IF p.mods[m].is_global
                   THEN [r1 EXCEPT !.global_exports = @ \cup {cls}]
                   ELSE r1
         IN  RegisterProviders(r2, p, m, k + 1)

\* the number of module instances the container of facade f has constructed:
\* the n-th one is named n
ModulesMade(f) ==
    IF modules[f] = <<>> THEN 0
    ELSE CHOOSE n \in {modules[f][k].val : k \in 1..Len(modules[f])} :
            \A k \in 1..Len(modules[f]) : modules[f][k].val <= n

\* a frame of register_module(module_cls) about to run its first statement;
\* i is the index of the import the loop of lines 45-46 takes next
WalkFrame(module_cls) == [module_cls |-> module_cls, i |-> 0]
WalkTop(f) == walk[f][Len(walk[f])]

(***************************************************************************)
(* Client programs                                                         *)
(***************************************************************************)
Names3 == [c \in {"A", "B", "C"} |->
             CASE c = "A" -> "ServiceA" [] c = "B" -> "ServiceB" [] OTHER -> "ServiceC"]
\* B and C are two classes named Service, defined in different files
NamesTwin == [c \in {"A", "B", "C"} |-> IF c = "A" THEN "ServiceA" ELSE "Service"]

ParamsA == {<<>>, <<Direct("B")>>, <<Direct("C")>>, <<Direct("A")>>,
            <<Direct("B"), Direct("C")>>, <<Direct("C"), Direct("B")>>,
            <<Direct("B"), Direct("B")>>}
ParamsB == {<<>>, <<Direct("C")>>, <<Direct("A")>>, <<Forward("ServiceC")>>}
ParamsC == {<<>>, <<Direct("B")>>, <<Plain>>, <<PlainDefault>>}

Program3(names, shape, scopes, m1, m2) ==
    [params |-> [c \in {"A", "B", "C"} |->
                   CASE c = "A" -> shape[1] [] c = "B" -> shape[2] [] OTHER -> shape[3]],
     scope |-> [c \in {"A", "B", "C"} |->
                   CASE c = "A" -> scopes[1] [] c = "B" -> scopes[2] [] OTHER -> scopes[3]],
     name |-> names,
     mods |-> [m \in {"M1", "M2"} |-> IF m = "M1" THEN m1 ELSE m2],
     root |-> "M1"]

\* module App (provider A) imports module Core (provider B, and C or not)
AppCore(shape, scopes, withC) ==
    Program3(Names3, shape, scopes,
             module(<<"A">>, <<"M2">>, <<>>, FALSE),
             module(IF withC THEN <<"B", "C">> ELSE <<"B">>, <<>>, <<"B">>, FALSE))

\* the constructor signatures of A, B and C
Shapes == ParamsA \X ParamsB \X ParamsC
\* a chain, a diamond, a dependency injected twice, a cycle, a failing
\* second dependency
ShapesFew ==
    {<<<<Direct("B")>>, <<Direct("C")>>, <<>>>>,
     <<<<Direct("B"), Direct("C")>>, <<Direct("C")>>, <<>>>>,
     <<<<Direct("B"), Direct("B")>>, <<Forward("ServiceC")>>, <<PlainDefault>>>>,
     <<<<Direct("B")>>, <<Direct("A")>>, <<>>>>,
     <<<<Direct("B"), Direct("C")>>, <<>>, <<Plain>>>>}
\* the scopes of A, B and C
ScopesAll ==
    {injectable(SINGLETON), injectable(TRANSIENT)}
    \X {injectable(SINGLETON), injectable(TRANSIENT), injectable(REQUEST)}
    \X {NoScope, injectable(TRANSIENT)}
ScopesFew ==
    {<<injectable(SINGLETON), injectable(SINGLETON), NoScope>>,
     <<injectable(TRANSIENT), injectable(TRANSIENT), injectable(TRANSIENT)>>,
     <<injectable(TRANSIENT), injectable(REQUEST), NoScope>>}

Programs ==
    {AppCore(sh, sc, TRUE) : sh \in Shapes, sc \in ScopesFew}
    \cup {AppCore(sh, sc, TRUE) : sh \in ShapesFew, sc \in ScopesAll}
    \cup {AppCore(sh, sc, FALSE) :
            sh \in {x \in Shapes : x[3] = <<>>},
            sc \in {x \in ScopesFew : x[3] = NoScope}}

\* the same program with every Request provider declared Transient
AsTransient(p) ==
    [p EXCEPT !.scope = [c \in DOMAIN p.scope |->
                           IF p.scope[c] = REQUEST THEN TRANSIENT ELSE p.scope[c]]]
RequestPrograms == {p \in Programs : \E c \in ClassesOf(p) : p.scope[c] = REQUEST}

\* module graphs over the same providers that differ in the exports lists,
\* the global flags and the owning modules
BaseLayout ==
    <<module(<<"A">>, <<"M2">>, <<>>, FALSE), module(<<"B", "C">>, <<>>, <<>>, FALSE)>>
Layouts ==
    {<<module(<<"A">>, <<"M2">>, <<"A">>, FALSE), module(<<"B", "C">>, <<>>, <<"B">>, TRUE)>>,
     <<module(<<"A", "B">>, <<"M2">>, <<>>, FALSE), module(<<"C">>, <<>>, <<"C">>, FALSE)>>,
     <<module(<<"A", "C">>, <<"M2">>, <<>>, TRUE), module(<<"B">>, <<>>, <<>>, FALSE)>>}
FlatShapes ==
    {<<>>, <<Direct("B")>>, <<Forward("Service")>>, <<Direct("B"), Direct("C")>>}
    \X {<<>>, <<Direct("C")>>, <<Direct("A")>>}
    \X {<<>>, <<Plain>>}
FlatPairs ==
    {<<Program3(names, sh, sc, BaseLayout[1], BaseLayout[2]),
       Program3(names, sh, sc, l[1], l[2])>> :
        names \in {Names3, NamesTwin}, sh \in FlatShapes, sc \in ScopesFew, l \in Layouts}

\* a class that @module never decorated: it has none of the attributes
NotAModule ==
    [providers |-> <<>>, imports |-> <<>>, exports |-> <<>>,
     is_global |-> FALSE, is_module |-> FALSE]

\* a program of three provider classes and four module classes
Program4(shape, scopes, mods) ==
    [params |-> [c \in {"A", "B", "C"} |->
                   CASE c = "A" -> shape[1] [] c = "B" -> shape[2] [] OTHER -> shape[3]],
     scope |-> [c \in {"A", "B", "C"} |->
                   CASE c = "A" -> scopes[1] [] c = "B" -> scopes[2] [] OTHER -> scopes[3]],
     name |-> Names3,
     mods |-> [m \in {"M1", "M2", "M3", "M4"} |->
                 CASE m = "M1" -> mods[1] [] m = "M2" -> mods[2]
                   [] m = "M3" -> mods[3] [] OTHER -> mods[4]],
     root |-> "M1"]

\* the imports of M1..M4: a diamond, a module imported at two depths, a
\* chain, a module listed twice in one imports list
ImportGraphs ==
    {<<<<"M2", "M3">>, <<"M4">>, <<"M4">>, <<>>>>,
     <<<<"M4", "M2">>, <<"M4", "M3">>, <<>>, <<>>>>,
     <<<<"M2">>, <<"M3">>, <<"M4">>, <<>>>>,
     <<<<"M2", "M3", "M2">>, <<"M4">>, <<>>, <<>>>>}
\* the providers of M1..M4: each class in one module, a class listed in the
\* providers of two modules, or class C in the providers of no module
OwnProviders == <<<<"A">>, <<"B">>, <<>>, <<"C">>>>
ProviderLists ==
    {OwnProviders,
     <<<<"A">>, <<>>, <<"C">>, <<"B", "C">>>>,
     <<<<"A", "B">>, <<"B">>, <<"C">>, <<>>>>,
     <<<<"A">>, <<"B">>, <<"B", "C">>, <<"C">>>>,
     <<<<"A">>, <<"B">>, <<>>, <<>>>>}
\* the modules declared with global_=True
GlobalFlags == {{}, {"M4"}, {"M2", "M3"}}

ModuleGraph(imports, providers, globals, invalid) ==
    [k \in 1..4 |->
        LET m == <<"M1", "M2", "M3", "M4">>[k]
        IN  IF m \in invalid THEN NotAModule
            ELSE module(providers[k], imports[k], <<>>, m \in globals)]

ModuleGraphs ==
    {ModuleGraph(i, ps, {}, {}) : i \in ImportGraphs, ps \in ProviderLists}
    \cup {ModuleGraph(i, OwnProviders, g, {}) : i \in ImportGraphs, g \in GlobalFlags}
    \cup {ModuleGraph(i, OwnProviders, {"M4"}, {m}) :
            i \in ImportGraphs, m \in {"M1", "M2", "M3", "M4"}}

ModulePrograms ==
    {Program4(sh, sc, g) :
        sh \in {<<<<Direct("B"), Direct("C")>>, <<Direct("C")>>, <<>>>>,
                <<<<Direct("B")>>, <<Direct("A")>>, <<PlainDefault>>>>},
        sc \in {<<injectable(SINGLETON), injectable(TRANSIENT), NoScope>>},
        g \in ModuleGraphs}

\* import graphs with a cycle (the attribute _imports assigned after the
\* decoration): the root imports itself; M1 and M2 import each other; a
\* cycle M2, M3 behind a leaf; a module below the root imports itself
CyclicImportGraphs ==
    {<<<<"M1">>, <<>>, <<>>, <<>>>>,
     <<<<"M2">>, <<"M1">>, <<>>, <<>>>>,
     <<<<"M4", "M2">>, <<"M3">>, <<"M2">>, <<>>>>,
     <<<<"M2", "M3">>, <<"M4">>, <<>>, <<"M4">>>>}
\* programs over import graphs with and without a cycle, some with a class
\* that is not a module
CyclicPrograms ==
    {Program4(sh, <<injectable(SINGLETON), injectable(TRANSIENT), NoScope>>,
              ModuleGraph(i, OwnProviders, {}, invalid)) :
        sh \in {<<<<Direct("B"), Direct("C")>>, <<Direct("C")>>, <<>>>>,
                <<<<Direct("B")>>, <<Direct("A")>>, <<PlainDefault>>>>},
        i \in CyclicImportGraphs \cup ImportGraphs,
        invalid \in {{}, {"M3"}, {"M4"}}}

\* constructors whose annotated parameters have defaults:
\* def __init__(self, c: C = None), def __init__(self, c: 'ServiceC' = None)
DefaultShapes ==
    {<<DirectDefault("C")>>, <<ForwardDefault("ServiceC")>>,
     <<Direct("B"), DirectDefault("C")>>, <<PlainDefault>>}
    \X {<<>>, <<DirectDefault("C")>>}
    \X {<<>>}
\* class C is a registered provider, or a class no module lists
DefaultPrograms ==
    {AppCore(sh, sc, withC) : sh \in DefaultShapes, sc \in ScopesFew, withC \in BOOLEAN}

\* programs of two threads that call get on one facade, with and without
\* a lock around the calls: a chain of constructor dependencies, and a
\* cycle
ThreadShapes ==
    {<<<<Direct("B")>>, <<Direct("C")>>, <<>>>>,
     <<<<Direct("B")>>, <<Direct("A")>>, <<>>>>}
ThreadScopes ==
    {<<injectable(SINGLETON), injectable(TRANSIENT), NoScope>>}
ThreadPrograms ==
    {[mutex |-> m] @@ AppCore(sh, sc, TRUE) :
        sh \in ThreadShapes, sc \in ThreadScopes, m \in BOOLEAN}

InitState(progs, threads) ==
    /\ prog = progs
    /\ app = [f \in DOMAIN progs |-> "none"]
    /\ walk = [f \in DOMAIN progs |-> <<>>]
    /\ raised = [f \in DOMAIN progs |-> NoExc]
    /\ provider_configs = [f \in DOMAIN progs |-> <<>>]
    /\ singletons = [f \in DOMAIN progs |-> <<>>]
    /\ modules = [f \in DOMAIN progs |-> <<>>]
    /\ global_exports = [f \in DOMAIN progs |-> {}]
    /\ resolving_stack = [f \in DOMAIN progs |-> {}]
    /\ heap = [f \in DOMAIN progs |-> <<>>]
    /\ chain = [t \in threads |-> Idle]
    /\ log = [f \in DOMAIN progs |-> <<>>]

Init == \E p \in Programs : InitState(<<p>>, {1})
\* two facades created from the same root module
InitTwin ==
    \E p \in {AppCore(sh, sc, TRUE) : sh \in ShapesFew, sc \in ScopesFew} :
        InitState(<<p, p>>, {1})
\* programs over graphs of four modules
InitModules == \E p \in ModulePrograms : InitState(<<p>>, {1})
\* programs whose import graph may have a cycle
InitCyclic == \E p \in CyclicPrograms : InitState(<<p>>, {1})
\* programs whose annotated parameters have defaults
InitDefaults == \E p \in DefaultPrograms : InitState(<<p>>, {1})
\* two threads share one facade
InitThreads == \E p \in ThreadPrograms : InitState(<<p>>, {1, 2})
\* two runs side by side: a program and its Transient twin
InitRequest == \E p \in RequestPrograms : InitState(<<p, AsTransient(p)>>, {1})
\* two runs side by side: one set of providers in two module graphs
InitFlat == \E pq \in FlatPairs : InitState(pq, {1})

(***************************************************************************)
(* Application facade: application.py                                      *)
(***************************************************************************)
\* AppFactory.create(root_module): ModiApplication.__init__ makes the
\* container and calls register_module(root_module)
Create(f) ==
    /\ app[f] = "none"
    /\ \A g \in Facades : app[g] # "booting"
    /\ \A t \in Threads : chain[t] = Idle
    /\ app' = [app EXCEPT ![f] = "booting"]
    /\ walk' = [walk EXCEPT ![f] = <<WalkFrame(prog[f].root)>>]
    /\ provider_configs' = [provider_configs EXCEPT ![f] = EmptyContainer.provider_configs]
    /\ modules' = [modules EXCEPT ![f] = EmptyContainer.modules]
    /\ global_exports' = [global_exports EXCEPT ![f] = EmptyContainer.global_exports]
    /\ UNCHANGED <<prog, raised, singletons, resolving_stack, heap, chain, log>>

\* register_module without the check of _is_module: a class without module
\* attributes is taken as a module with no providers and no imports
RegisterModuleEnterUnchecked(f) ==
    /\ app[f] = "booting" /\ walk[f] # <<>> /\ WalkTop(f).i = 0
    /\ LET m == WalkTop(f).module_cls
           r == RegisterProviders(
                   [provider_configs |-> provider_configs[f],
                    modules |-> DictSet(modules[f], m, ModulesMade(f) + 1),
                    global_exports |-> global_exports[f]], prog[f], m, 1)
       IN  /\ provider_configs' = [provider_configs EXCEPT ![f] = r.provider_configs]
           /\ modules' = [modules EXCEPT ![f] = r.modules]
           /\ global_exports' = [global_exports EXCEPT ![f] = r.global_exports]
           /\ walk' = [walk EXCEPT ![f][Len(walk[f])].i = 1]
    /\ UNCHANGED <<prog, app, raised, singletons, resolving_stack, heap, chain, log>>

\* register_module returns at once for a module the container has already
\* registered
RegisterModuleEnterOnce(f) ==
    /\ app[f] = "booting" /\ walk[f] # <<>> /\ WalkTop(f).i = 0
    /\ LET m == WalkTop(f).module_cls
           p == prog[f]
       IN  IF ~p.mods[m].is_module
           THEN /\ walk' = [walk EXCEPT ![f] = <<>>]
                /\ app' = [app EXCEPT ![f] = "failed"]
                /\ raised' = [raised EXCEPT ![f] = InvalidModuleError(m)]
                /\ UNCHANGED <<provider_configs, modules, global_exports>>
           ELSE IF DictHas(modules[f], m)
           THEN /\ walk' = [walk EXCEPT ![f][Len(walk[f])].i = Len(p.mods[m].imports) + 1]
                /\ UNCHANGED <<app, raised, provider_configs, modules, global_exports>>
           ELSE LET r == RegisterProviders(
                           [provider_configs |-> provider_configs[f],
                            modules |-> DictSet(modules[f], m, ModulesMade(f) + 1),
                            global_exports |-> global_exports[f]], p, m, 1)
                IN  /\ provider_configs' = [provider_configs EXCEPT ![f] = r.provider_configs]
                    /\ modules' = [modules EXCEPT ![f] = r.modules]
                    /\ global_exports' = [global_exports EXCEPT ![f] = r.global_exports]
                    /\ walk' = [walk EXCEPT ![f][Len(walk[f])].i = 1]
                    /\ UNCHANGED <<app, raised>>
    /\ UNCHANGED <<prog, singletons, resolving_stack, heap, chain, log>>

\* container.py 29-42: the check of _is_module, the module instance, the
\* providers.  The ValueError is caught by no caller: create raises it.
RegisterModuleEnter(f) ==
    /\ app[f] = "booting" /\ walk[f] # <<>> /\ WalkTop(f).i = 0
    /\ LET m == WalkTop(f).module_cls
           p == prog[f]
       IN  IF ~p.mods[m].is_module
           THEN /\ walk' = [walk EXCEPT ![f] = <<>>]
                /\ app' = [app EXCEPT ![f] = "failed"]
                /\ raised' = [raised EXCEPT ![f] = InvalidModuleError(m)]
                /\ UNCHANGED <<provider_configs, modules, global_exports>>
           ELSE LET r == RegisterProviders(
                           [provider_configs |-> provider_configs[f],
                            modules |-> DictSet(modules[f], m, ModulesMade(f) + 1),
                            global_exports |-> global_exports[f]], p, m, 1)
                IN  /\ provider_configs' = [provider_configs EXCEPT ![f] = r.provider_configs]
                    /\ modules' = [modules EXCEPT ![f] = r.modules]
                    /\ global_exports' = [global_exports EXCEPT ![f] = r.global_exports]
                    /\ walk' = [walk EXCEPT ![f][Len(walk[f])].i = 1]
                    /\ UNCHANGED <<app, raised>>
    /\ UNCHANGED <<prog, singletons, resolving_stack, heap, chain, log>>

\* the imports are not walked
RegisterModuleImportSkipped(f) ==
    /\ app[f] = "booting" /\ walk[f] # <<>>
    /\ LET fr == WalkTop(f)
       IN  /\ fr.i >= 1 /\ fr.i <= Len(prog[f].mods[fr.module_cls].imports)
           /\ walk' = [walk EXCEPT ![f][Len(walk[f])].i = fr.i + 1]
    /\ UNCHANGED <<prog, app, raised, provider_configs, singletons, modules,
                   global_exports, resolving_stack, heap, chain, log>>

\* the loop walks module_cls._imports from its last element to its first
RegisterModuleImportReversed(f) ==
    /\ app[f] = "booting" /\ walk[f] # <<>>
    /\ LET fr == WalkTop(f)
           imports == prog[f].mods[fr.module_cls].imports
       IN  /\ fr.i >= 1 /\ fr.i <= Len(imports)
           /\ walk' = [walk EXCEPT ![f] =
                         Append([@ EXCEPT ![Len(@)].i = fr.i + 1],
                                WalkFrame(imports[Len(imports) + 1 - fr.i]))]
    /\ UNCHANGED <<prog, app, raised, provider_configs, singletons, modules,
                   global_exports, resolving_stack, heap, chain, log>>

\* container.py 45-46: the loop over module_cls._imports calls
\* register_module(imported_module).  A call that would make the chain
\* deeper than the recursion limit raises RecursionError instead, which no
\* caller catches: create raises it.
RegisterModuleImport(f) ==
    /\ app[f] = "booting" /\ walk[f] # <<>>
    /\ LET fr == WalkTop(f)
           imports == prog[f].mods[fr.module_cls].imports
       IN  /\ fr.i >= 1 /\ fr.i <= Len(imports)
           /\ IF Len(walk[f]) >= MaxWalk
              THEN /\ walk' = [walk EXCEPT ![f] = <<>>]
                   /\ app' = [app EXCEPT ![f] = "failed"]
                   /\ raised' = [raised EXCEPT ![f] = RecursionError]
              ELSE /\ walk' = [walk EXCEPT ![f] =
                                 Append([@ EXCEPT ![Len(@)].i = fr.i + 1],
                                        WalkFrame(imports[fr.i]))]
                   /\ UNCHANGED <<app, raised>>
    /\ UNCHANGED <<prog, provider_configs, singletons, modules,
                   global_exports, resolving_stack, heap, chain, log>>

\* register_module returns after its last import; the return of the call
\* for the root module ends ModiApplication.__init__
RegisterModuleReturn(f) ==
    /\ app[f] = "booting" /\ walk[f] # <<>>
    /\ LET fr == WalkTop(f)
       IN  /\ fr.i > Len(prog[f].mods[fr.module_cls].imports)
           /\ walk' = [walk EXCEPT ![f] = SubSeq(@, 1, Len(@) - 1)]
           /\ app' = IF Len(walk[f]) = 1 THEN [app EXCEPT ![f] = "ready"] ELSE app
    /\ UNCHANGED <<prog, raised, provider_configs, singletons, modules,
                   global_exports, resolving_stack, heap, chain, log>>

\* a frame of ModuleContainer.resolve(cls) about to run its first statement
Frame(cls) ==
    [cls |-> cls, pc |-> "guard", scope |-> "", i |-> 1, kwargs |-> <<>>,
     ret |-> None, exc |-> NoExc]

\* The client makes the same calls on every facade it created, one facade
\* after the other: facade 1 leads, facade f > 1 repeats the call of f - 1.
Turn(f, cls) ==
    IF f = 1
    THEN \A g \in Facades : Len(log[g]) = Len(log[1])
    ELSE /\ Len(log[f]) < Len(log[f - 1])
         /\ cls = log[f - 1][Len(log[f]) + 1].cls

\* the client calls app.get under one lock of its own:
\* with lock: app.get(cls)
Mutex(p) == "mutex" \in DOMAIN p /\ p.mutex
\* the threads that are inside a get of facade f
Busy(f) == {u \in Threads : chain[u].app = f}

\* ModiApplication.get(cls): calls self.container.resolve(cls).  Thread t
\* calls it while other threads may be inside a get of the same facade,
\* unless the client program holds its lock around every get.  The threads
\* are interchangeable: a new call is made by the idle thread of least
\* number.
Get(t, f, cls) ==
    /\ app[f] = "ready"
    /\ \A g \in Facades : app[g] # "booting"
    /\ chain[t] = Idle /\ \A u \in Threads : u < t => chain[u] # Idle
    /\ Mutex(prog[f]) => Busy(f) = {}
    /\ Len(log[f]) + Cardinality(Busy(f)) < MaxGets
    /\ Turn(f, cls)
    /\ chain' = [chain EXCEPT ![t] = [app |-> f, frames |-> <<Frame(cls)>>]]
    /\ UNCHANGED <<prog, app, walk, raised, provider_configs, singletons, modules,
                   global_exports, resolving_stack, heap, log>>

(***************************************************************************)
(* Resolver: ModuleContainer.resolve and _create_instance                  *)
(***************************************************************************)
Depth(t) == Len(chain[t].frames)
Top(t) == chain[t].frames[Depth(t)]
At(t, pc) == chain[t] # Idle /\ Top(t).pc = pc
SetTop(t, fr) == [chain EXCEPT ![t].frames = [@ EXCEPT ![Len(@)] = fr]]

\* _create_instance wraps the exception of the resolve call in its own
ResumeWrapping(caller, ret, exc) ==
    IF exc = NoExc
    THEN [caller EXCEPT !.kwargs = Append(@, ret), !.i = @ + 1]
    ELSE [caller EXCEPT !.exc = ConstructorError(exc.name), !.pc = "finally"]

\* _create_instance catches the exception of a resolve call, leaves the
\* parameter unbound and goes on with the next parameter
ResumeContinuing(caller, ret, exc) ==
    IF exc = NoExc
    THEN [caller EXCEPT !.kwargs = Append(@, ret), !.i = @ + 1]
    ELSE [caller EXCEPT !.kwargs = Append(@, None), !.i = @ + 1]

\* the frame of _create_instance receives the value or the exception of the
\* resolve call it made for parameter i
Resume(caller, ret, exc) ==
    IF exc = NoExc
    THEN [caller EXCEPT !.kwargs = Append(@, ret), !.i = @ + 1]
    ELSE [caller EXCEPT !.exc = exc, !.pc = "finally"]

\* the top resolve frame of thread t ends with a value or an exception: its
\* caller continues, or the top-level get completes
Leave(t, ret, exc) ==
    LET fs == chain[t].frames
        n == Len(fs)
        f == chain[t].app
    IN  IF n = 1
        THEN /\ chain' = [chain EXCEPT ![t] = Idle]
             /\ log' = [log EXCEPT ![f] =
                          Append(@, [cls |-> fs[1].cls, ret |-> ret, exc |-> exc])]
        ELSE /\ chain' = [chain EXCEPT ![t].frames =
                            Append(SubSeq(fs, 1, n - 2), Resume(fs[n - 1], ret, exc))]
             /\ log' = log

\* a re-entered identity yields None instead of raising
ResolveGuardLenient(t) ==
    /\ At(t, "guard")
    /\ LET fr == Top(t)
           f == chain[t].app
       IN  IF fr.cls \in resolving_stack[f]
           THEN Leave(t, None, NoExc)
           ELSE /\ chain' = SetTop(t, [fr EXCEPT !.pc = "add"])
                /\ log' = log
    /\ UNCHANGED <<prog, app, walk, raised, provider_configs, singletons, modules,
                   global_exports, resolving_stack, heap>>

\* the guard is applied to Singleton providers only
ResolveGuardSingletons(t) ==
    /\ At(t, "guard")
    /\ LET fr == Top(t)
           f == chain[t].app
       IN  IF fr.cls \in resolving_stack[f] /\ DeclaredScope(prog[f], fr.cls) = SINGLETON
           THEN Leave(t, None, CircularDependencyError(ClassName(prog[f], fr.cls)))
           ELSE /\ chain' = SetTop(t, [fr EXCEPT !.pc = "add"])
                /\ log' = log
    /\ UNCHANGED <<prog, app, walk, raised, provider_configs, singletons, modules,
                   global_exports, resolving_stack, heap>>

\* the error names the class get was called with, not the class found on
\* the stack
ResolveGuardNamesRoot(t) ==
    /\ At(t, "guard")
    /\ LET fr == Top(t)
           f == chain[t].app
       IN  IF fr.cls \in resolving_stack[f]
           THEN Leave(t, None,
                      CircularDependencyError(ClassName(prog[f], chain[t].frames[1].cls)))
           ELSE /\ chain' = SetTop(t, [fr EXCEPT !.pc = "add"])
                /\ log' = log
    /\ UNCHANGED <<prog, app, walk, raised, provider_configs, singletons, modules,
                   global_exports, resolving_stack, heap>>

\* the guard also refuses an identity that is in the singleton cache
ResolveGuardCached(t) ==
    /\ At(t, "guard")
    /\ LET fr == Top(t)
           f == chain[t].app
       IN  IF fr.cls \in resolving_stack[f] \/ fr.cls \in DOMAIN singletons[f]
           THEN Leave(t, None, CircularDependencyError(ClassName(prog[f], fr.cls)))
           ELSE /\ chain' = SetTop(t, [fr EXCEPT !.pc = "add"])
                /\ log' = log
    /\ UNCHANGED <<prog, app, walk, raised, provider_configs, singletons, modules,
                   global_exports, resolving_stack, heap>>

\* container.py 77-79: if cls in self._resolving_stack: raise RuntimeError
ResolveGuard(t) ==
    /\ At(t, "guard")
    /\ LET fr == Top(t)
           f == chain[t].app
       IN  IF fr.cls \in resolving_stack[f]
           THEN Leave(t, None, CircularDependencyError(ClassName(prog[f], fr.cls)))
           ELSE /\ chain' = SetTop(t, [fr EXCEPT !.pc = "add"])
                /\ log' = log
    /\ UNCHANGED <<prog, app, walk, raised, provider_configs, singletons, modules,
                   global_exports, resolving_stack, heap>>

\* container.py 81: self._resolving_stack.add(cls)
ResolveAdd(t) ==
    /\ At(t, "add")
    /\ resolving_stack' = [resolving_stack EXCEPT ![chain[t].app] = @ \cup {Top(t).cls}]
    /\ chain' = SetTop(t, [Top(t) EXCEPT !.pc = "config"])
    /\ UNCHANGED <<prog, app, walk, raised, provider_configs, singletons, modules,
                   global_exports, heap, log>>

\* a class without a config is registered on demand, as a Singleton of no
\* module, instead of being refused
ResolveConfigRegistering(t) ==
    /\ At(t, "config")
    /\ LET fr == Top(t)
           f == chain[t].app
           configs == provider_configs[f]
       IN  IF ~DictHas(configs, fr.cls)
           THEN /\ provider_configs' = [provider_configs EXCEPT ![f] =
                      DictSet(@, fr.cls, [scope |-> SINGLETON, module |-> ""])]
                /\ chain' = SetTop(t, [fr EXCEPT !.scope = SINGLETON, !.pc = "cached"])
           ELSE /\ provider_configs' = provider_configs
                /\ chain' = SetTop(t, [fr EXCEPT !.scope = DictGet(configs, fr.cls).scope,
                                                 !.pc = "cached"])
    /\ UNCHANGED <<prog, app, walk, raised, singletons, modules,
                   global_exports, resolving_stack, heap, log>>

\* container.py 84-89: config lookup, raise ValueError when absent, read scope
ResolveConfig(t) ==
    /\ At(t, "config")
    /\ LET fr == Top(t)
           f == chain[t].app
           configs == provider_configs[f]
       IN  chain' = SetTop(t,
             IF ~DictHas(configs, fr.cls)
             THEN [fr EXCEPT !.exc = UnregisteredProviderError(ClassName(prog[f], fr.cls)),
                             !.pc = "finally"]
             ELSE [fr EXCEPT !.scope = DictGet(configs, fr.cls).scope, !.pc = "cached"])
    /\ UNCHANGED <<prog, app, walk, raised, provider_configs, singletons, modules,
                   global_exports, resolving_stack, heap, log>>

\* only the call made by get looks into the cache
ResolveCachedTopOnly(t) ==
    /\ At(t, "cached")
    /\ LET fr == Top(t)
           cache == singletons[chain[t].app]
       IN  chain' = SetTop(t,
             IF fr.scope = SINGLETON /\ fr.cls \in DOMAIN cache /\ Depth(t) = 1
             THEN [fr EXCEPT !.ret = cache[fr.cls], !.pc = "finally"]
             ELSE [fr EXCEPT !.pc = "create"])
    /\ UNCHANGED <<prog, app, walk, raised, provider_configs, singletons, modules,
                   global_exports, resolving_stack, heap, log>>

\* the cache is not consulted: every resolution constructs
ResolveCachedNever(t) ==
    /\ At(t, "cached")
    /\ chain' = SetTop(t, [Top(t) EXCEPT !.pc = "create"])
    /\ UNCHANGED <<prog, app, walk, raised, provider_configs, singletons, modules,
                   global_exports, resolving_stack, heap, log>>

\* the call made by get never looks into the cache, only the calls made
\* for constructor parameters do
ResolveCachedNestedOnly(t) ==
    /\ At(t, "cached")
    /\ LET fr == Top(t)
           cache == singletons[chain[t].app]
       IN  chain' = SetTop(t,
             IF fr.scope = SINGLETON /\ fr.cls \in DOMAIN cache /\ Depth(t) > 1
             THEN [fr EXCEPT !.ret = cache[fr.cls], !.pc = "finally"]
             ELSE [fr EXCEPT !.pc = "create"])
    /\ UNCHANGED <<prog, app, walk, raised, provider_configs, singletons, modules,
                   global_exports, resolving_stack, heap, log>>

\* container.py 92-93: return the existing instance of a singleton
ResolveCached(t) ==
    /\ At(t, "cached")
    /\ LET fr == Top(t)
           cache == singletons[chain[t].app]
       IN  chain' = SetTop(t,
             IF fr.scope = SINGLETON /\ fr.cls \in DOMAIN cache
             THEN [fr EXCEPT !.ret = cache[fr.cls], !.pc = "finally"]
             ELSE [fr EXCEPT !.pc = "create"])
    /\ UNCHANGED <<prog, app, walk, raised, provider_configs, singletons, modules,
                   global_exports, resolving_stack, heap, log>>

\* the name is looked up among all classes of the program, registered or
\* not
ResolveForwardReferenceAny(p, configs, class_name) ==
    LET hits == {c \in ClassesOf(p) : ClassName(p, c) = class_name}
    IN  IF hits = {}
        THEN [cls |-> "", exc |-> UnresolvableForwardReferenceError(class_name)]
        ELSE [cls |-> CHOOSE c \in hits : TRUE, exc |-> NoExc]

\* _resolve_forward_reference: the first registered class with that name,
\* or ValueError
ResolveForwardReference(p, configs, class_name) ==
    LET hits == {k \in 1..Len(configs) : ClassName(p, configs[k].key) = class_name}
    IN  IF hits = {}
        THEN [cls |-> "", exc |-> UnresolvableForwardReferenceError(class_name)]
        ELSE [cls |-> configs[CHOOSE k \in hits : \A j \in hits : k <= j].key,
              exc |-> NoExc]

\* container.py 122-134: one iteration of the loop over the constructor's
\* parameters, up to the recursive call of resolve
CreateInstanceParam(t) ==
    /\ At(t, "create")
    /\ LET fr == Top(t)
           f == chain[t].app
           params == prog[f].params[fr.cls]
       IN  /\ fr.i <= Len(params)
           /\ LET param == params[fr.i]
                  param_type == IF param.kind = "fwd"
                                THEN ResolveForwardReference(prog[f], provider_configs[f], param.ref)
                                ELSE [cls |-> param.ref, exc |-> NoExc]
              IN  chain' =
                    IF param.kind = "none"
                    THEN SetTop(t, [fr EXCEPT !.kwargs = Append(@, None), !.i = @ + 1])
                    ELSE IF param_type.exc # NoExc
                    THEN SetTop(t, [fr EXCEPT !.exc = param_type.exc, !.pc = "finally"])
                    ELSE [chain EXCEPT ![t].frames = Append(@, Frame(param_type.cls))]
    /\ UNCHANGED <<prog, app, walk, raised, provider_configs, singletons, modules,
                   global_exports, resolving_stack, heap, log>>

\* the arguments cls(**kwargs) does not receive although it requires them
Missing(params, kwargs) ==
    {k \in 1..Len(params) : kwargs[k] = None /\ ~params[k].hasDefault}

\* container.py 136: return cls(**kwargs)
CreateInstance(t) ==
    /\ At(t, "create")
    /\ LET fr == Top(t)
           f == chain[t].app
           params == prog[f].params[fr.cls]
       IN  /\ fr.i > Len(params)
           /\ IF Missing(params, fr.kwargs) # {}
              THEN /\ chain' = SetTop(t, [fr EXCEPT
                                      !.exc = ConstructorError(ClassName(prog[f], fr.cls)),
                                      !.pc = "finally"])
                   /\ heap' = heap
              ELSE /\ heap' = [heap EXCEPT ![f] =
                                 Append(@, [cls |-> fr.cls, kwargs |-> fr.kwargs])]
                   /\ chain' = SetTop(t, [fr EXCEPT !.ret = <<f, Len(heap[f]) + 1>>,
                                                    !.pc = "store"])
    /\ UNCHANGED <<prog, app, walk, raised, provider_configs, singletons, modules,
                   global_exports, resolving_stack, log>>

\* every scope but Transient is stored
ResolveStoreUnlessTransient(t) ==
    /\ At(t, "store")
    /\ singletons' = IF Top(t).scope # TRANSIENT
                     THEN [singletons EXCEPT ![chain[t].app] = (Top(t).cls :> Top(t).ret) @@ @]
                     ELSE singletons
    /\ chain' = SetTop(t, [Top(t) EXCEPT !.pc = "finally"])
    /\ UNCHANGED <<prog, app, walk, raised, provider_configs, modules, global_exports,
                   resolving_stack, heap, log>>

\* the instance is stored whatever the scope
ResolveStoreAlways(t) ==
    /\ At(t, "store")
    /\ singletons' = [singletons EXCEPT ![chain[t].app] = (Top(t).cls :> Top(t).ret) @@ @]
    /\ chain' = SetTop(t, [Top(t) EXCEPT !.pc = "finally"])
    /\ UNCHANGED <<prog, app, walk, raised, provider_configs, modules, global_exports,
                   resolving_stack, heap, log>>

\* the instance is returned without being stored
ResolveStoreNever(t) ==
    /\ At(t, "store")
    /\ chain' = SetTop(t, [Top(t) EXCEPT !.pc = "finally"])
    /\ UNCHANGED <<prog, app, walk, raised, provider_configs, singletons, modules,
                   global_exports, resolving_stack, heap, log>>

\* _singletons is an attribute of the class ModuleContainer: one dict for
\* all containers
ResolveStoreShared(t) ==
    /\ At(t, "store")
    /\ singletons' = IF Top(t).scope = SINGLETON
                     THEN [g \in Facades |-> (Top(t).cls :> Top(t).ret) @@ singletons[g]]
                     ELSE singletons
    /\ chain' = SetTop(t, [Top(t) EXCEPT !.pc = "finally"])
    /\ UNCHANGED <<prog, app, walk, raised, provider_configs, modules, global_exports,
                   resolving_stack, heap, log>>

\* container.py 99-102: store the singleton, return the instance
ResolveStore(t) ==
    /\ At(t, "store")
    /\ LET fr == Top(t)
           f == chain[t].app
       IN  /\ singletons' = IF fr.scope = SINGLETON
                            THEN [singletons EXCEPT ![f] = (fr.cls :> fr.ret) @@ @]
                            ELSE singletons
           /\ chain' = SetTop(t, [fr EXCEPT !.pc = "finally"])
    /\ UNCHANGED <<prog, app, walk, raised, provider_configs, modules, global_exports,
                   resolving_stack, heap, log>>

\* the finally clause also stores the singleton
ResolveFinallyStores(t) ==
    /\ At(t, "finally")
    /\ resolving_stack' = [resolving_stack EXCEPT ![chain[t].app] = @ \ {Top(t).cls}]
    /\ singletons' = IF Top(t).scope = SINGLETON
                     THEN [singletons EXCEPT ![chain[t].app] = (Top(t).cls :> Top(t).ret) @@ @]
                     ELSE singletons
    /\ Leave(t, Top(t).ret, Top(t).exc)
    /\ UNCHANGED <<prog, app, walk, raised, provider_configs, modules, global_exports, heap>>

\* the discard follows the try block instead of being its finally clause
ResolveFinallyOnReturn(t) ==
    /\ At(t, "finally")
    /\ resolving_stack' =
          IF Top(t).exc = NoExc
          THEN [resolving_stack EXCEPT ![chain[t].app] = @ \ {Top(t).cls}]
          ELSE resolving_stack
    /\ Leave(t, Top(t).ret, Top(t).exc)
    /\ UNCHANGED <<prog, app, walk, raised, provider_configs, singletons, modules,
                   global_exports, heap>>

\* a failed resolution rolls the cache back: the finally clause empties
\* _singletons when an exception is on its way
ResolveFinallyClears(t) ==
    /\ At(t, "finally")
    /\ resolving_stack' = [resolving_stack EXCEPT ![chain[t].app] = @ \ {Top(t).cls}]
    /\ singletons' = IF Top(t).exc # NoExc
                     THEN [singletons EXCEPT ![chain[t].app] = <<>>]
                     ELSE singletons
    /\ Leave(t, Top(t).ret, Top(t).exc)
    /\ UNCHANGED <<prog, app, walk, raised, provider_configs, modules, global_exports, heap>>

\* the stack is emptied when the call made by get ends, instead of being
\* unwound frame by frame
ResolveFinallyAtTop(t) ==
    /\ At(t, "finally")
    /\ resolving_stack' = IF Depth(t) = 1
                          THEN [resolving_stack EXCEPT ![chain[t].app] = {}]
                          ELSE resolving_stack
    /\ Leave(t, Top(t).ret, Top(t).exc)
    /\ UNCHANGED <<prog, app, walk, raised, provider_configs, singletons, modules,
                   global_exports, heap>>

\* container.py 104-105: finally: self._resolving_stack.discard(cls)
ResolveFinally(t) ==
    /\ At(t, "finally")
    /\ resolving_stack' = [resolving_stack EXCEPT ![chain[t].app] = @ \ {Top(t).cls}]
    /\ Leave(t, Top(t).ret, Top(t).exc)
    /\ UNCHANGED <<prog, app, walk, raised, provider_configs, singletons, modules,
                   global_exports, heap>>

Next ==
    \/ \E f \in Facades : Create(f)
    \/ \E f \in Facades : RegisterModuleEnter(f)
    \/ \E f \in Facades : RegisterModuleImport(f)
    \/ \E f \in Facades : RegisterModuleReturn(f)
    \/ \E t \in Threads, f \in Facades : \E cls \in ClassesOf(prog[f]) : Get(t, f, cls)
    \/ \E t \in Threads : ResolveGuard(t)
    \/ \E t \in Threads : ResolveAdd(t)
    \/ \E t \in Threads : ResolveConfig(t)
    \/ \E t \in Threads : ResolveCached(t)
    \/ \E t \in Threads : CreateInstanceParam(t)
    \/ \E t \in Threads : CreateInstance(t)
    \/ \E t \in Threads : ResolveStore(t)
    \/ \E t \in Threads : ResolveFinally(t)

Spec == Init /\ [][Next]_vars
SpecRequest == InitRequest /\ [][Next]_vars
SpecFlat == InitFlat /\ [][Next]_vars
SpecModules == InitModules /\ [][Next]_vars
SpecTwin == InitTwin /\ [][Next]_vars
SpecDefaults == InitDefaults /\ [][Next]_vars
SpecThreads == InitThreads /\ [][Next]_vars

\* a step of the resolution a get started: resolve and _create_instance are
\* plain synchronous calls, the thread that called get runs them to the end
Resolving(t) ==
    \/ ResolveGuard(t) \/ ResolveAdd(t) \/ ResolveConfig(t) \/ ResolveCached(t)
    \/ CreateInstanceParam(t) \/ CreateInstance(t) \/ ResolveStore(t)
    \/ ResolveFinally(t)
SpecLive == Init /\ [][Next]_vars /\ WF_vars(\E t \in {1} : Resolving(t))

\* a step of the walk create started: register_module is a plain synchronous
\* call of ModiApplication.__init__, which runs it to the end
Registering(f) ==
    RegisterModuleEnter(f) \/ RegisterModuleImport(f) \/ RegisterModuleReturn(f)
SpecCyclic == InitCyclic /\ [][Next]_vars /\ WF_vars(\E f \in {1} : Registering(f))

(***************************************************************************)
(* Helpers of the properties                                               *)
(***************************************************************************)
Ok(e) == e.exc = NoExc
Failed(e) == e.exc # NoExc
\* the scope the program declares for cls (SINGLETON when it declares none)
IsSingleton(f, cls) == prog[f].scope[cls] \in {SINGLETON, NoScope}
Entries(f) == 1..Len(log[f])
\* no get is in progress
Quiet == \A t \in Threads : chain[t] = Idle

\* the classes the parameters of cls refer to: directly, or by a name that
\* some class of the program carries
ParamRefs(p, cls) ==
    {c \in ClassesOf(p) : \E k \in 1..Len(p.params[cls]) :
        \/ p.params[cls][k].kind = "cls" /\ p.params[cls][k].ref = c
        \/ p.params[cls][k].kind = "fwd" /\ p.params[cls][k].ref = p.name[c]}
\* the classes reachable from cls through one or more parameters
RECURSIVE ReachFrom(_, _)
ReachFrom(p, S) ==
    LET T == S \cup UNION {ParamRefs(p, c) : c \in S}
    IN  IF T = S THEN S ELSE ReachFrom(p, T)
DepsOf(p, cls) == ReachFrom(p, ParamRefs(p, cls))

(***************************************************************************)
(* C1  Singleton: all successful get(P) calls on one facade return the     *)
(* identical instance for a provider P whose scope is Singleton (declared  *)
(* or defaulted), whatever get calls, successful or failed, lie between.   *)
(***************************************************************************)
SingletonIdentity ==
    \A f \in Facades : \A i, j \in Entries(f) :
        ( /\ log[f][i].cls = log[f][j].cls
          /\ IsSingleton(f, log[f][i].cls)
          /\ Ok(log[f][i]) /\ Ok(log[f][j]) )
        => log[f][i].ret = log[f][j].ret

\* get(P), a failed get of another provider, get(P) again
SingletonIdentityWitness ==
    \E f \in Facades :
        /\ Len(log[f]) = 3
        /\ log[f][1].cls = log[f][3].cls /\ IsSingleton(f, log[f][1].cls)
        /\ Ok(log[f][1]) /\ Ok(log[f][3]) /\ Failed(log[f][2])
        /\ log[f][1].ret = log[f][3].ret

IsTransient(f, cls) == prog[f].scope[cls] = TRANSIENT
ClassOf(id) == heap[id[1]][id[2]].cls
\* the places that hold the result of a resolution: the result of a
\* top-level get, an argument of a constructed instance
Slots(f) ==
    {<<"get", i, 0>> : i \in Entries(f)}
    \cup UNION {{<<"arg", n, k>> : k \in 1..Len(heap[f][n].kwargs)} :
                  n \in 1..Len(heap[f])}
SlotValue(f, s) ==
    IF s[1] = "get" THEN log[f][s[2]].ret ELSE heap[f][s[2]].kwargs[s[3]]
\* the frame of resolve(P) obtains its return value in this step
Returns(t) ==
    /\ chain[t] # Idle /\ chain'[t] # Idle
    /\ Depth(t) = Len(chain'[t].frames)
    /\ Top(t).ret = None
    /\ chain'[t].frames[Depth(t)].ret # None

(***************************************************************************)
(* C2  Transient: every resolution of a provider P declared Transient (a   *)
(* top-level get or an injection as a constructor argument) constructs a   *)
(* fresh instance, distinct from every instance produced before on that    *)
(* facade, and P is never a key of the singleton cache.                    *)
(***************************************************************************)
TransientFresh ==
    /\ [](\A f \in Facades : \A cls \in ClassesOf(prog[f]) :
            IsTransient(f, cls) => cls \notin DOMAIN singletons[f])
    /\ [](\A f \in Facades : \A s1, s2 \in Slots(f) :
            ( /\ s1 # s2
              /\ SlotValue(f, s1) # None
              /\ SlotValue(f, s1) = SlotValue(f, s2) )
            => ~IsTransient(f, ClassOf(SlotValue(f, s1))))
    /\ [][\A t \in Threads :
            (Returns(t) /\ IsTransient(chain[t].app, Top(t).cls))
            => LET f == chain[t].app
                   n == Len(heap[f]) + 1
               IN  /\ Len(heap'[f]) = n
                   /\ heap'[f][n].cls = Top(t).cls
                   /\ chain'[t].frames[Depth(t)].ret = <<f, n>>]_vars

\* a Transient P was returned by get(P) and was also injected twice
TransientFreshWitness ==
    \E f \in Facades : \E i \in Entries(f) : \E n, m \in 1..Len(heap[f]) :
        /\ Ok(log[f][i]) /\ IsTransient(f, log[f][i].cls)
        /\ Len(heap[f][n].kwargs) >= 1 /\ Len(heap[f][m].kwargs) >= 1
        /\ heap[f][n].kwargs[1] # None /\ heap[f][m].kwargs[Len(heap[f][m].kwargs)] # None
        /\ ClassOf(heap[f][n].kwargs[1]) = log[f][i].cls
        /\ ClassOf(heap[f][m].kwargs[Len(heap[f][m].kwargs)]) = log[f][i].cls
        /\ heap[f][n].kwargs[1] # heap[f][m].kwargs[Len(heap[f][m].kwargs)]
        /\ heap[f][n].kwargs[1] # log[f][i].ret

\* the frames of the call chain on facade f that are inside the try block
Active(f) ==
    {a \in UNION {{<<t, k>> : k \in 1..Depth(t)} : t \in Threads} :
        /\ chain[a[1]].app = f
        /\ chain[a[1]].frames[a[2]].pc \notin {"guard", "add"}}

(***************************************************************************)
(* C3  resolving_stack is empty whenever no get is in progress, also after *)
(* a get that failed; while a get is in progress it is exactly the set of  *)
(* the identities with an active resolve frame on the call chain (added at *)
(* line 81, not yet removed at line 105), each of them once.  So every     *)
(* CircularDependencyError a get reports names a class that lies on a      *)
(* cycle of the constructor dependencies.                                  *)
(***************************************************************************)
StackUnwound ==
    \A f \in Facades :
        /\ resolving_stack[f] = {chain[a[1]].frames[a[2]].cls : a \in Active(f)}
        /\ Cardinality(resolving_stack[f]) = Cardinality(Active(f))
        /\ (\A t \in Threads : chain[t].app # f) => resolving_stack[f] = {}
        /\ \A i \in Entries(f) :
              (Quiet /\ log[f][i].exc.msg = "Circular dependency detected")
              => \E c \in ClassesOf(prog[f]) :
                    /\ ClassName(prog[f], c) = log[f][i].exc.name
                    /\ c \in DepsOf(prog[f], c)

\* a get failed below its top frame; a later get of an identity that was on
\* the failed chain succeeded
StackUnwoundWitness ==
    \E f \in Facades :
        /\ Len(log[f]) >= 2
        /\ Failed(log[f][1]) /\ Ok(log[f][2])
        /\ log[f][1].exc.name # ClassName(prog[f], log[f][1].cls)
        /\ log[f][2].cls \in DepsOf(prog[f], log[f][1].cls)
        /\ resolving_stack[f] = {}

(***************************************************************************)
(* Helpers: what the declarations of a program say                         *)
(***************************************************************************)
Seq2Set(q) == {q[k] : k \in 1..Len(q)}
\* the modules reachable from the root through imports, the root included
RECURSIVE ImportClosure(_, _)
ImportClosure(p, S) ==
    LET T == S \cup UNION {Seq2Set(p.mods[m].imports) : m \in S}
    IN  IF T = S THEN S ELSE ImportClosure(p, T)
ReachableModules(p) == ImportClosure(p, {p.root})
\* the providers of the reachable modules
Registered(p) == UNION {Seq2Set(p.mods[m].providers) : m \in ReachableModules(p)}
\* the parameter refers to class c
RefersTo(p, param, c) ==
    \/ param.kind = "cls" /\ param.ref = c
    \/ param.kind = "fwd" /\ param.ref = p.name[c]
\* every resolution cls needs can succeed: cls and its dependencies are
\* registered, lie on no cycle, and their constructors get what they require
Sound(p, cls) ==
    \A c \in {cls} \cup DepsOf(p, cls) :
        /\ c \in Registered(p)
        /\ c \notin DepsOf(p, c)
        /\ \A k \in 1..Len(p.params[c]) :
              /\ p.params[c][k].kind = "none" => p.params[c][k].hasDefault
              /\ p.params[c][k].kind = "cls" => p.params[c][k].ref \in Registered(p)
              /\ p.params[c][k].kind = "fwd" =>
                    \E d \in Registered(p) : p.name[d] = p.params[c][k].ref

Cycle(p, P, Q) ==
    /\ Len(p.params[P]) >= 1 /\ RefersTo(p, p.params[P][1], Q)
    /\ Len(p.params[Q]) >= 1 /\ RefersTo(p, p.params[Q][1], P)
    /\ {P, Q} \subseteq Registered(p)

UnregisteredFails ==
    /\ [](\A f \in Facades : \A i \in Entries(f) :
            LET P == log[f][i].cls
                p == prog[f]
            IN  /\ P \notin Registered(p) =>
                      log[f][i].exc = UnregisteredProviderError(ClassName(p, P))
                /\ ( /\ P \in Registered(p)
                     /\ Len(p.params[P]) >= 1
                     /\ p.params[P][1].kind = "cls"
                     /\ p.params[P][1].ref \notin Registered(p) )
                   => log[f][i].exc =
                         UnregisteredProviderError(ClassName(p, p.params[P][1].ref)))
    /\ [][\A t \in Threads :
            LET f == chain[t].app
                fr == Top(t)
            IN  /\ (At(t, "config") /\ fr.cls \notin Registered(prog[f]))
                   => /\ chain'[t] # Idle
                      /\ chain'[t].frames[Depth(t)].exc =
                            UnregisteredProviderError(ClassName(prog[f], fr.cls))
                      /\ chain'[t].frames[Depth(t)].pc = "finally"
                /\ (At(t, "finally") /\ fr.exc # NoExc)
                   => IF Depth(t) = 1
                      THEN /\ chain'[t] = Idle
                           /\ log'[f] = Append(log[f],
                                [cls |-> fr.cls, ret |-> None, exc |-> fr.exc])
                      ELSE /\ Len(chain'[t].frames) = Depth(t) - 1
                           /\ chain'[t].frames[Depth(t) - 1].exc = fr.exc
                           /\ chain'[t].frames[Depth(t) - 1].pc = "finally"]_vars

\* get(D) of an unregistered D failed, and get(P) of a registered P failed
\* with the error of resolve(D), D being a dependency of a dependency of P
UnregisteredFailsWitness ==
    \E f \in Facades : \E i, j \in Entries(f) :
        LET p == prog[f] IN
        /\ log[f][i].cls \notin Registered(p)
        /\ log[f][i].exc = UnregisteredProviderError(ClassName(p, log[f][i].cls))
        /\ log[f][j].cls \in Registered(p)
        /\ log[f][j].exc = log[f][i].exc
        /\ log[f][i].cls \notin ParamRefs(p, log[f][j].cls)
        /\ log[f][i].cls \in DepsOf(p, log[f][j].cls)

(***************************************************************************)
(* C6  A failed get leaves the committed state intact and caches no failed *)
(* instance: no step of a resolution changes provider_configs; an entry of *)
(* the singleton cache is never removed or replaced; an entry is added     *)
(* only for a Singleton provider, by its own resolve frame, with the       *)
(* instance that frame constructed after all its dependencies were         *)
(* resolved; the providers on a failing call chain, and the provider of a  *)
(* failed get, are not in the cache.                                       *)
(***************************************************************************)
FailureKeepsState ==
    /\ [](\A t \in Threads :
            (chain[t] # Idle /\ Top(t).exc # NoExc)
            => \A k \in 1..Depth(t) :
                  chain[t].frames[k].cls \notin DOMAIN singletons[chain[t].app])
    /\ [](\A f \in Facades : \A i \in Entries(f) :
            Failed(log[f][i]) => log[f][i].cls \notin DOMAIN singletons[f])
    /\ [][\A f \in Facades :
            /\ app[f] = "ready" => provider_configs'[f] = provider_configs[f]
            /\ \A c \in DOMAIN singletons[f] :
                  c \in DOMAIN singletons'[f] /\ singletons'[f][c] = singletons[f][c]
            /\ \A c \in DOMAIN singletons'[f] \ DOMAIN singletons[f] :
                  /\ IsSingleton(f, c)
                  /\ \E t \in Threads :
                        /\ chain[t].app = f
                        /\ Top(t).cls = c
                        /\ Top(t).exc = NoExc
                        /\ Top(t).i > Len(prog[f].params[c])
                        /\ Top(t).ret # None
                        /\ Top(t).ret = singletons'[f][c]
                        /\ ClassOf(Top(t).ret) = c]_vars

\* a get failed after a Singleton dependency had been resolved and cached
\* by that same call; the entry is returned by the next get and is still
\* there after a second failed get
FailureKeepsStateWitness ==
    \E f \in Facades :
        /\ Len(log[f]) = 3
        /\ Failed(log[f][1]) /\ Ok(log[f][2]) /\ Failed(log[f][3])
        /\ log[f][3].cls = log[f][1].cls
        /\ log[f][2].cls \in ParamRefs(prog[f], log[f][1].cls)
        /\ Len(heap[f]) = 1
        /\ DOMAIN singletons[f] = {log[f][2].cls}
        /\ singletons[f][log[f][2].cls] = log[f][2].ret

(***************************************************************************)
(* C7  Injected dependencies obey their own scope: whenever an instance of *)
(* a Singleton provider D is a constructor argument of two instances (of   *)
(* two consumers, or of one Transient consumer), it is the same instance,  *)
(* the one the cache holds and the one get(D) returns; and two successful  *)
(* get(Svc) return the same instance exactly when Svc is Singleton.        *)
(***************************************************************************)
InjectedScope ==
    \A f \in Facades :
        /\ \A s \in Slots(f) :
              LET x == SlotValue(f, s) IN
              (x # None /\ IsSingleton(f, ClassOf(x)))
              => /\ ClassOf(x) \in DOMAIN singletons[f]
                 /\ singletons[f][ClassOf(x)] = x
        /\ \A i, j \in Entries(f) :
              (i # j /\ log[f][i].cls = log[f][j].cls /\ Ok(log[f][i]) /\ Ok(log[f][j]))
              => ((log[f][i].ret = log[f][j].ret) <=> IsSingleton(f, log[f][i].cls))

\* svc1 and svc2 are two instances of a Transient Svc of module App, their
\* argument is the one instance of the Singleton Db of module Core, and
\* get(Db) returned it too
InjectedScopeWitness ==
    \E f \in Facades :
        /\ Len(log[f]) = 3
        /\ \A i \in 1..3 : Ok(log[f][i])
        /\ log[f][1].cls = log[f][2].cls /\ log[f][1].ret # log[f][2].ret
        /\ LET svc1 == heap[f][log[f][1].ret[2]]
               svc2 == heap[f][log[f][2].ret[2]]
           IN  /\ Len(svc1.kwargs) >= 1
               /\ svc1.kwargs[1] = svc2.kwargs[1]
               /\ svc1.kwargs[1] = log[f][3].ret
               /\ IsSingleton(f, log[f][3].cls)

(***************************************************************************)
(* Two runs side by side.  Facade 2 repeats every call of facade 1; an     *)
(* instance is named by the facade and its rank among the instances the    *)
(* facade constructed, so the runs are compared rank by rank.              *)
(***************************************************************************)
Rank(id) == IF id = None THEN 0 ELSE id[2]
SameResult(e1, e2) ==
    e1.cls = e2.cls /\ e1.exc = e2.exc /\ Rank(e1.ret) = Rank(e2.ret)
HeapShape(f) ==
    [n \in 1..Len(heap[f]) |->
        [cls |-> heap[f][n].cls,
         kwargs |-> [k \in 1..Len(heap[f][n].kwargs) |-> Rank(heap[f][n].kwargs[k])]]]
CacheShape(f) == [c \in DOMAIN singletons[f] |-> Rank(singletons[f][c])]
\* both facades have completed the same calls
InStep == Len(log[1]) = Len(log[2]) /\ \A t \in Threads : chain[t] = Idle
SameRuns ==
    /\ \A k \in 1..Len(log[2]) : SameResult(log[1][k], log[2][k])
    /\ InStep => /\ HeapShape(1) = HeapShape(2)
                 /\ CacheShape(1) = CacheShape(2)

(***************************************************************************)
(* C8  A provider declared Request behaves as the same provider declared   *)
(* Transient: a program and the program obtained from it by replacing      *)
(* Request by Transient give, for every sequence of get calls, the same    *)
(* results, the same errors, the same instances and the same cache; a      *)
(* Request provider is never cached.                                       *)
(***************************************************************************)
RequestAsTransient ==
    /\ Facades = {1, 2}
    /\ prog[2] = AsTransient(prog[1])
    /\ SameRuns
    /\ \A f \in Facades : \A c \in ClassesOf(prog[f]) :
          prog[f].scope[c] = REQUEST => c \notin DOMAIN singletons[f]

\* a Request provider was resolved by two gets, and injected, on both sides
RequestAsTransientWitness ==
    /\ InStep /\ Len(log[1]) = 3
    /\ prog[1].scope[log[1][1].cls] = REQUEST
    /\ log[1][2].cls = log[1][1].cls
    /\ Ok(log[1][1]) /\ Ok(log[1][2]) /\ Ok(log[2][2])
    /\ log[1][1].ret # log[1][2].ret
    /\ Ok(log[1][3])
    /\ \E k \in 1..Len(heap[1][log[1][3].ret[2]].kwargs) :
          /\ heap[1][log[1][3].ret[2]].kwargs[k] # None
          /\ ClassOf(heap[1][log[1][3].ret[2]].kwargs[k]) = log[1][1].cls

SameDeclarations ==
    /\ Facades = {1, 2}
    /\ prog[1].params = prog[2].params
    /\ prog[1].scope = prog[2].scope
    /\ prog[1].name = prog[2].name
    /\ Registered(prog[1]) = Registered(prog[2])

(***************************************************************************)
(* C10  Resolution is flat: two module graphs over the same providers that *)
(* differ only in the exports lists, the global flags and the owning       *)
(* modules of the providers give, for every sequence of get calls, the     *)
(* same results and the same errors.                                       *)
(***************************************************************************)
FlatResolution == SameDeclarations /\ SameRuns

Untouched(f) == log[f] = <<>> /\ \A t \in Threads : chain[t].app # f

(***************************************************************************)
(* C9  Bootstrap registers eagerly and instantiates lazily: when create    *)
(* has returned and no get was made yet, provider_configs has a config for *)
(* exactly the providers of the modules reachable from the root through    *)
(* imports, the singleton cache and resolving_stack are empty and no       *)
(* instance exists; a Singleton is constructed at most once, during a get. *)
(***************************************************************************)
EagerLazy ==
    \A f \in Facades :
        /\ (app[f] = "ready" /\ Untouched(f))
           => /\ DictKeys(provider_configs[f]) = Registered(prog[f])
              /\ DOMAIN singletons[f] = {}
              /\ resolving_stack[f] = {}
              /\ heap[f] = <<>>
        /\ app[f] = "ready" => Registered(prog[f]) \subseteq DictKeys(provider_configs[f])
        /\ \A c \in ClassesOf(prog[f]) :
              IsSingleton(f, c)
              => Cardinality({n \in 1..Len(heap[f]) : heap[f][n].cls = c}) <= 1

\* create has returned: providers of the root and of an imported module
\* are registered and nothing is constructed
EagerLazyWitness ==
    \E f \in Facades :
        /\ app[f] = "ready" /\ Untouched(f)
        /\ \E c, d \in DictKeys(provider_configs[f]) :
              DictGet(provider_configs[f], c).module # DictGet(provider_configs[f], d).module
        /\ heap[f] = <<>>

(***************************************************************************)
(* Helpers: the registration walk the declarations of a program prescribe  *)
(***************************************************************************)
\* the modules register_module(m) visits, in the order of the visits, for
\* an acyclic import graph; a class that is not a module is visited and
\* has no imports
RECURSIVE WalkOrder(_, _)
RECURSIVE WalkImports(_, _, _)
WalkImports(p, m, k) ==
    IF k > Len(p.mods[m].imports) THEN <<>>
    ELSE WalkOrder(p, p.mods[m].imports[k]) \o WalkImports(p, m, k + 1)
WalkOrder(p, m) == <<m>> \o WalkImports(p, m, 1)
\* the modules the walk from the root visits more than once
VisitedTwice(p) ==
    LET w == WalkOrder(p, p.root)
    IN  {m \in Seq2Set(w) : Cardinality({k \in 1..Len(w) : w[k] = m}) >= 2}
\* the reachable classes that lack module metadata
InvalidModules(p) == {m \in ReachableModules(p) : ~p.mods[m].is_module}
\* register_module is about to run for a module the container has already
\* registered
Revisit(f) ==
    /\ app[f] = "booting" /\ walk[f] # <<>> /\ WalkTop(f).i = 0
    /\ DictHas(modules[f], WalkTop(f).module_cls)

(***************************************************************************)
(* C11  Importing one module through two import paths of a graph does not  *)
(* raise, and after bootstrap the config (scope and owning module) of each *)
(* provider of that module is the one a single registration of the module  *)
(* writes; a register_module call for a module that is already registered  *)
(* leaves provider_configs and global_exports unchanged.                   *)
(***************************************************************************)
DiamondIdempotent ==
    [][\A f \in Facades :
          /\ Revisit(f) => /\ app'[f] # "failed"
                           /\ provider_configs'[f] = provider_configs[f]
                           /\ global_exports'[f] = global_exports[f]
          /\ (app[f] = "booting" /\ app'[f] = "ready")
             => \A m \in VisitedTwice(prog[f]) :
                  \A c \in Seq2Set(prog[f].mods[m].providers) :
                     /\ DictHas(provider_configs'[f], c)
                     /\ DictGet(provider_configs'[f], c) =
                           [scope |-> DeclaredScope(prog[f], c), module |-> m]]_vars

(***************************************************************************)
(* C12  Registering a class that lacks module metadata fails with          *)
(* InvalidModuleError (ValueError "... is not a module") naming that       *)
(* class, whether it is the root or is reached through the imports of      *)
(* valid modules at any depth; the error ends create, which returns no     *)
(* facade: no get is ever made on it.  A graph of valid modules only       *)
(* bootstraps without error.                                               *)
(***************************************************************************)
InvalidModuleAborts ==
    \A f \in Facades :
        LET p == prog[f]
            w == WalkOrder(p, p.root)
            bad == {k \in 1..Len(w) : ~p.mods[w[k]].is_module}
        IN  /\ app[f] = "failed"
               => /\ InvalidModules(p) # {}
                  /\ raised[f] =
                        InvalidModuleError(w[CHOOSE k \in bad : \A j \in bad : k <= j])
                  /\ log[f] = <<>> /\ heap[f] = <<>> /\ singletons[f] = <<>>
                  /\ \A t \in Threads : chain[t].app # f
            /\ app[f] = "ready" => InvalidModules(p) = {} /\ raised[f] = NoExc
            /\ (app[f] = "booting" /\ InvalidModules(p) = {}) => raised[f] = NoExc

\* create failed on a class reached at depth two, after modules and
\* providers had been registered
InvalidModuleAbortsWitness ==
    \E f \in Facades :
        /\ app[f] = "failed"
        /\ raised[f].msg = "is not a module"
        /\ raised[f].name # prog[f].root
        /\ raised[f].name \notin Seq2Set(prog[f].mods[prog[f].root].imports)
        /\ Len(modules[f]) >= 2 /\ Len(provider_configs[f]) >= 2

\* the registry, cache, stack, instances and results of facade f
FacadeState(f) ==
    <<provider_configs[f], modules[f], global_exports[f], singletons[f],
      resolving_stack[f], heap[f], log[f]>>
\* facade f is being created, or a get on it is in progress in this step
Acting(f) ==
    \/ app[f] \in {"none", "booting"}
    \/ \E t \in Threads : chain[t].app = f \/ chain'[t].app = f
\* the instances facade f holds: in its cache, as results of its gets, as
\* arguments of the instances it constructed
Held(f) ==
    {singletons[f][c] : c \in DOMAIN singletons[f]}
    \cup ({SlotValue(f, s) : s \in Slots(f)} \ {None})

(***************************************************************************)
(* C13  Registry state is per facade: two facades created from the same    *)
(* root module hold no instance in common, so get(P) of a Singleton P      *)
(* returns different instances on the two facades; a step of create or of  *)
(* a get (successful or failed) on one facade leaves provider_configs,     *)
(* modules, global_exports, the singleton cache, resolving_stack, the      *)
(* instances and the results of the other facade unchanged.                *)
(***************************************************************************)
FacadeIsolation ==
    /\ [](\A f, g \in Facades : f # g => Held(f) \cap Held(g) = {})
    /\ [](\A f \in Facades : \A x \in Held(f) : x[1] = f)
    /\ [][\A f \in Facades : ~Acting(f) => FacadeState(f)' = FacadeState(f)]_vars

\* get(P) of a Singleton P succeeded on both facades and was cached by
\* each, then a get failed on facade 1
FacadeIsolationWitness ==
    /\ Facades = {1, 2} /\ prog[1] = prog[2]
    /\ Len(log[1]) >= 2 /\ Len(log[2]) >= 1
    /\ Ok(log[1][1]) /\ Ok(log[2][1]) /\ Failed(log[1][2])
    /\ IsSingleton(1, log[1][1].cls)
    /\ log[1][1].ret # log[2][1].ret
    /\ singletons[1][log[1][1].cls] = log[1][1].ret
    /\ singletons[2][log[2][1].cls] = log[2][1].ret

(***************************************************************************)
(* C20  provider_configs is write-once per provider identity: during a     *)
(* registration walk a config, once written, is never changed, also when   *)
(* the provider is listed in the providers of two modules, so that after   *)
(* the walk its scope and owning module are those of its first             *)
(* registration.                                                           *)
(***************************************************************************)
WriteOnce ==
    [][\A f \in Facades :
          app[f] = "booting"
          => \A c \in DictKeys(provider_configs[f]) :
                /\ DictHas(provider_configs'[f], c)
                /\ DictGet(provider_configs'[f], c) = DictGet(provider_configs[f], c)]_vars

(***************************************************************************)
(* C14  The singleton cache only grows: an entry, once written, maps its   *)
(* provider to the same instance in every later state, whatever gets       *)
(* succeed or fail.  An entry is written only after the constructor of     *)
(* the provider returned: the instance exists when it is stored, it has    *)
(* an argument for every parameter, and each dependency among its          *)
(* arguments was constructed before it and, when Singleton, is cached.     *)
(***************************************************************************)
CacheOnlyGrows ==
    /\ [][\A f \in Facades :
            /\ \A c \in DOMAIN singletons[f] :
                  c \in DOMAIN singletons'[f] /\ singletons'[f][c] = singletons[f][c]
            /\ \A c \in DOMAIN singletons'[f] \ DOMAIN singletons[f] :
                  /\ singletons'[f][c][2] <= Len(heap[f])
                  /\ heap[f][singletons'[f][c][2]].cls = c]_vars
    /\ [](\A f \in Facades : \A c \in DOMAIN singletons[f] :
            LET n == singletons[f][c][2]
                params == prog[f].params[c]
            IN  /\ singletons[f][c][1] = f /\ n \in 1..Len(heap[f])
                /\ heap[f][n].cls = c
                /\ Len(heap[f][n].kwargs) = Len(params)
                /\ \A k \in 1..Len(params) :
                      params[k].kind # "none"
                      => LET d == heap[f][n].kwargs[k]
                         IN  /\ d # None /\ d[2] < n
                             /\ IsSingleton(f, ClassOf(d))
                                => /\ ClassOf(d) \in DOMAIN singletons[f]
                                   /\ singletons[f][ClassOf(d)] = d)

\* get(P) cached P and its dependency, the next get failed, a third get
\* returned the entry of P
CacheOnlyGrowsWitness ==
    \E f \in Facades :
        /\ Len(log[f]) = 3
        /\ Ok(log[f][1]) /\ Failed(log[f][2]) /\ Ok(log[f][3])
        /\ log[f][3].cls = log[f][1].cls
        /\ Cardinality(DOMAIN singletons[f]) >= 2
        /\ log[f][1].cls \in DOMAIN singletons[f]
        /\ singletons[f][log[f][1].cls] = log[f][3].ret
        /\ log[f][2].exc.type = "TypeError"

\* the top frame of thread t resolves a Singleton that is in the cache
Hit(t) ==
    /\ chain[t] # Idle
    /\ DictHas(provider_configs[chain[t].app], Top(t).cls)
    /\ DictGet(provider_configs[chain[t].app], Top(t).cls).scope = SINGLETON
    /\ Top(t).cls \in DOMAIN singletons[chain[t].app]

(***************************************************************************)
(* C15  Resolving a Singleton P that is already cached returns the cached  *)
(* instance without entering dependency resolution: no step of the call    *)
(* constructs an instance, pushes a resolve frame for a dependency or      *)
(* changes the cache; the call adds P to resolving_stack and removes it    *)
(* again, and hands the cached instance to its caller.  A frame that       *)
(* constructs is never the frame of a cached Singleton, and only the top   *)
(* frame of a chain is outside the constructor loop.                       *)
(***************************************************************************)
CachedShortCut ==
    /\ [](\A t \in Threads : \A k \in 1..Depth(t) :
            LET fr == chain[t].frames[k]
            IN  /\ k < Depth(t) => fr.pc = "create"
                /\ (fr.pc \in {"create", "store"} /\ fr.scope = SINGLETON)
                   => fr.cls \notin DOMAIN singletons[chain[t].app])
    /\ [][\A t \in Threads :
            Hit(t) =>
              LET f == chain[t].app
                  fr == Top(t)
                  x == singletons[f][fr.cls]
              IN  /\ heap' = heap /\ singletons' = singletons
                  /\ Len(chain'[t].frames) <= Depth(t)
                  /\ fr.pc \in {"guard", "add", "config", "cached", "finally"}
                  /\ fr.pc = "guard" =>
                        /\ fr.cls \notin resolving_stack[f]
                        /\ resolving_stack' = resolving_stack
                        /\ chain'[t].frames[Depth(t)].pc = "add"
                  /\ fr.pc = "add" =>
                        /\ resolving_stack'[f] = resolving_stack[f] \cup {fr.cls}
                        /\ chain'[t].frames[Depth(t)].pc = "config"
                  /\ fr.pc = "config" =>
                        /\ resolving_stack' = resolving_stack
                        /\ chain'[t].frames[Depth(t)].pc = "cached"
                  /\ fr.pc = "cached" =>
                        /\ resolving_stack' = resolving_stack
                        /\ chain'[t].frames[Depth(t)] =
                              [fr EXCEPT !.pc = "finally", !.ret = x]
                  /\ fr.pc = "finally" =>
                        /\ fr.ret = x /\ fr.exc = NoExc
                        /\ resolving_stack'[f] = resolving_stack[f] \ {fr.cls}
                        /\ IF Depth(t) = 1
                           THEN log'[f] = Append(log[f],
                                   [cls |-> fr.cls, ret |-> x, exc |-> NoExc])
                           ELSE chain'[t].frames[Depth(t) - 1].kwargs =
                                   Append(chain[t].frames[Depth(t) - 1].kwargs, x)]_vars

\* two get(P) of a Singleton P that captured a Transient D, then get(D):
\* three instances exist, P, the captured D and the D of the third get
CachedShortCutWitness ==
    \E f \in Facades :
        /\ Len(log[f]) = 3 /\ \A i \in 1..3 : Ok(log[f][i])
        /\ log[f][1].cls = log[f][2].cls /\ log[f][1].ret = log[f][2].ret
        /\ IsSingleton(f, log[f][1].cls)
        /\ Len(heap[f][log[f][1].ret[2]].kwargs) = 1
        /\ heap[f][log[f][1].ret[2]].kwargs[1] # None
        /\ ClassOf(heap[f][log[f][1].ret[2]].kwargs[1]) = log[f][3].cls
        /\ IsTransient(f, log[f][3].cls)
        /\ heap[f][log[f][1].ret[2]].kwargs[1] # log[f][3].ret
        /\ Len(heap[f]) = 3

\* no registered provider of p lies on a cycle of constructor dependencies
Acyclic(p) == \A c \in Registered(p) : c \notin DepsOf(p, c)
\* the exceptions in flight on the call chains of facade f and the
\* exceptions its gets raised
Raised(f) ==
    {log[f][i].exc : i \in Entries(f)}
    \cup UNION {{chain[t].frames[k].exc : k \in 1..Depth(t)} :
                  t \in {u \in Threads : chain[u].app = f}}

(***************************************************************************)
(* C16  The cycle guard reports only real cycles: in a program whose       *)
(* registered providers lie on no cycle of constructor dependencies, no    *)
(* resolve frame and no get ever raises CircularDependencyError, also when *)
(* a provider is reached several times within one get through different    *)
(* branches and, being Transient, is resolved each time.                   *)
(***************************************************************************)
NoFalseCycle ==
    \A f \in Facades :
        Acyclic(prog[f])
        => \A e \in Raised(f) : e.msg # "Circular dependency detected"

\* one get(A) of an acyclic diamond constructed two instances of the
\* Transient provider both branches reach
NoFalseCycleWitness ==
    \E f \in Facades :
        /\ Acyclic(prog[f])
        /\ Len(log[f]) = 1 /\ Ok(log[f][1]) /\ Quiet
        /\ LET a == heap[f][log[f][1].ret[2]]
           IN  /\ Len(a.kwargs) = 2
               /\ a.kwargs[1] # None /\ a.kwargs[2] # None
               /\ ClassOf(a.kwargs[1]) # ClassOf(a.kwargs[2])
               /\ IsTransient(f, ClassOf(a.kwargs[2]))
               /\ heap[f][a.kwargs[1][2]].kwargs # <<>>
               /\ heap[f][a.kwargs[1][2]].kwargs[1] # None
               /\ ClassOf(heap[f][a.kwargs[1][2]].kwargs[1]) = ClassOf(a.kwargs[2])
               /\ heap[f][a.kwargs[1][2]].kwargs[1] # a.kwargs[2]

(***************************************************************************)
(* C17  Every get terminates: whatever the constructor dependency graph    *)
(* (acyclic, cyclic, self-dependent) and the scopes, a get that started    *)
(* ends, with an instance or with an error.  The call chain holds each     *)
(* identity once below its top frame, so it is never longer than the       *)
(* number of registered providers plus one; a cycle of Transient providers *)
(* is detected like any other.                                             *)
(***************************************************************************)
GetTerminates ==
    /\ (chain[1] # Idle) ~> (chain[1] = Idle)
    /\ [](\A t \in Threads :
            /\ chain[t] # Idle =>
                  Depth(t) <= Cardinality(DictKeys(provider_configs[chain[t].app])) + 1
            /\ \A j, k \in 1..(Depth(t) - 1) :
                  j # k => chain[t].frames[j].cls # chain[t].frames[k].cls)
    /\ [](\A f \in Facades : \A i \in Entries(f) :
            \/ Ok(log[f][i]) /\ log[f][i].ret # None /\ ClassOf(log[f][i].ret) = log[f][i].cls
            \/ Failed(log[f][i]) /\ log[f][i].ret = None)

\* three gets of providers on a cycle of Transient providers ended with
\* the cycle error and left nothing behind
GetTerminatesWitness ==
    \E f \in Facades :
        /\ Len(log[f]) = 3 /\ Quiet
        /\ \A i \in 1..3 :
              /\ log[f][i].exc.msg = "Circular dependency detected"
              /\ IsTransient(f, log[f][i].cls)
              /\ \A c \in DepsOf(prog[f], log[f][i].cls) : IsTransient(f, c)
        /\ log[f][1].cls # log[f][2].cls
        /\ heap[f] = <<>> /\ resolving_stack[f] = {}

\* the registered classes the first constructor parameter of c refers to
FirstRefs(p, c) ==
    IF p.params[c] = <<>> \/ p.params[c][1].kind = "none" THEN {}
    ELSE IF p.params[c][1].kind = "cls" THEN {p.params[c][1].ref}
    ELSE {d \in Registered(p) : p.name[d] = p.params[c][1].ref}
\* the first identity a depth-first resolution from c enters a second time
\* when each provider on the way asks for the next as its first
\* parameter; "" when the way ends before
RECURSIVE Reentered(_, _, _)
Reentered(p, path, c) ==
    IF c \in path THEN c
    ELSE IF c \notin Registered(p) \/ Cardinality(FirstRefs(p, c)) # 1 THEN ""
    ELSE Reentered(p, path \cup {c}, CHOOSE d \in FirstRefs(p, c) : TRUE)

(***************************************************************************)
(* C18  A CircularDependencyError names the identity that was requested    *)
(* while already on the call chain, the first one the depth-first          *)
(* resolution enters a second time: the frame that raises it is the frame  *)
(* of that identity and an earlier frame of the chain has the same         *)
(* identity; on a cycle P -> Q -> P get(P) names P and get(Q) names Q, on  *)
(* A -> B -> C -> B get(A) names B, on P -> P get(P) names P.              *)
(***************************************************************************)
CycleNamesReentered ==
    /\ [](\A f \in Facades : \A i \in Entries(f) :
            LET d == Reentered(prog[f], {}, log[f][i].cls)
            IN  d # "" => log[f][i].exc = CircularDependencyError(ClassName(prog[f], d)))
    /\ [][\A t \in Threads :
            (At(t, "guard") /\ Top(t).cls \in resolving_stack[chain[t].app])
            => LET f == chain[t].app
                   e == CircularDependencyError(ClassName(prog[f], Top(t).cls))
               IN  /\ \E k \in 1..(Depth(t) - 1) : chain[t].frames[k].cls = Top(t).cls
                   /\ IF Depth(t) = 1
                      THEN log'[f][Len(log'[f])].exc = e
                      ELSE chain'[t].frames[Depth(t) - 1].exc = e]_vars

\* on A -> B -> C -> B, get(A) and get(B) named B and get(C) named C
CycleNamesReenteredWitness ==
    \E f \in Facades : \E i, j, k \in Entries(f) :
        LET p == prog[f]
            A == log[f][i].cls
            B == log[f][j].cls
            C == log[f][k].cls
        IN  /\ A # B /\ B # C /\ A # C
            /\ FirstRefs(p, A) = {B} /\ FirstRefs(p, B) = {C} /\ FirstRefs(p, C) = {B}
            /\ log[f][i].exc = CircularDependencyError(ClassName(p, B))
            /\ log[f][j].exc = CircularDependencyError(ClassName(p, B))
            /\ log[f][k].exc = CircularDependencyError(ClassName(p, C))

\* the registered classes a constructor parameter is resolved to
ParamTarget(p, param) ==
    IF param.kind = "cls" THEN {param.ref}
    ELSE IF param.kind = "fwd" THEN {d \in Registered(p) : p.name[d] = param.ref}
    ELSE {}
\* the resolution of the parameter cannot succeed
ParamFails(p, param) ==
    /\ param.kind # "none"
    /\ \/ ParamTarget(p, param) = {}
       \/ \E d \in ParamTarget(p, param) : ~Sound(p, d)
\* the classes the resolution of the first i parameters of cls can reach
Needs(p, cls, i) ==
    LET ds == UNION {ParamTarget(p, p.params[cls][k]) : k \in 1..i}
    IN  ds \cup UNION {DepsOf(p, d) : d \in ds}

(***************************************************************************)
(* C19  Constructor dependencies are resolved in parameter declaration     *)
(* order and depth-first: a frame in the constructor loop has bound the    *)
(* parameters before i and the frame above it resolves parameter i; a      *)
(* returned value is bound to parameter i and the loop goes to i + 1; an   *)
(* exception ends the loop, binds nothing and is handed on.  So when       *)
(* parameter i is the first that fails, the get of a fresh facade fails    *)
(* with the error a get of that dependency gives, and it constructs and    *)
(* caches only instances of the dependencies of parameters 1..i.           *)
(***************************************************************************)
ParametersInOrder ==
    /\ [](\A t \in Threads : \A k \in 1..Depth(t) :
            LET fr == chain[t].frames[k]
                p == prog[chain[t].app]
            IN  /\ fr.pc = "create" => Len(fr.kwargs) = fr.i - 1
                /\ fr.exc # NoExc => fr.pc = "finally" /\ k = Depth(t)
                /\ k < Depth(t) =>
                      /\ fr.i <= Len(p.params[fr.cls])
                      /\ chain[t].frames[k + 1].cls \in
                            ParamTarget(p, p.params[fr.cls][fr.i]))
    /\ [][\A t \in Threads :
            (At(t, "finally") /\ Depth(t) > 1)
            => LET caller == chain[t].frames[Depth(t) - 1]
                   after == chain'[t].frames[Depth(t) - 1]
               IN  IF Top(t).exc = NoExc
                   THEN after = [caller EXCEPT !.kwargs = Append(@, Top(t).ret),
                                               !.i = @ + 1]
                   ELSE after = [caller EXCEPT !.exc = Top(t).exc, !.pc = "finally"]]_vars
    /\ [](\A f \in Facades :
            (Len(log[f]) >= 1 /\ log[f][1].cls \in Registered(prog[f]))
            => LET p == prog[f]
                   P == log[f][1].cls
                   bad == {k \in 1..Len(p.params[P]) : ParamFails(p, p.params[P][k])}
                   i == CHOOSE k \in bad : \A j \in bad : k <= j
               IN  bad # {} =>
                     /\ Failed(log[f][1])
                     /\ (Len(log[f]) = 1 /\ Quiet) =>
                           /\ \A n \in 1..Len(heap[f]) : heap[f][n].cls \in Needs(p, P, i)
                           /\ DOMAIN singletons[f] \subseteq Needs(p, P, i)
                     /\ ( /\ Len(log[f]) >= 2
                          /\ log[f][2].cls \in ParamTarget(p, p.params[P][i])
                          /\ P \notin Needs(p, P, i) )
                        => log[f][2].exc = log[f][1].exc)

\* get(A) with A(b: B, c: C) failed in the resolution of b; the get(C) that
\* followed constructed the first instance there is
ParametersInOrderWitness ==
    \E f \in Facades :
        LET p == prog[f]
            A == log[f][1].cls
        IN  /\ Len(log[f]) = 2
            /\ Len(p.params[A]) = 2
            /\ ParamFails(p, p.params[A][1]) /\ ~ParamFails(p, p.params[A][2])
            /\ Failed(log[f][1])
            /\ log[f][2].cls \in ParamTarget(p, p.params[A][2])
            /\ log[f][2].cls \notin Needs(p, A, 1)
            /\ Ok(log[f][2])
            /\ log[f][2].ret = <<f, 1>>

(***************************************************************************)
(* C21  After create returned, the registry is read-only: no step of a get,*)
(* of one that succeeds or of one that fails, changes _provider_configs,   *)
(* _modules or _global_exports of the facade, and the facade stays usable. *)
(* Of the container's attributes a resolution writes _singletons and       *)
(* _resolving_stack only.                                                  *)
(***************************************************************************)
RegistryReadOnly ==
    [][\A f \in Facades :
          app[f] = "ready"
          => /\ provider_configs'[f] = provider_configs[f]
             /\ modules'[f] = modules[f]
             /\ global_exports'[f] = global_exports[f]
             /\ app'[f] = "ready" /\ walk'[f] = walk[f] /\ raised'[f] = raised[f]]_vars

\* a get succeeded and filled the cache, a get failed, a third get has
\* put an identity on the stack; the registry is what the walk made it
RegistryReadOnlyWitness ==
    \E f \in Facades :
        /\ app[f] = "ready" /\ Len(log[f]) = 2
        /\ \E i, j \in Entries(f) : Ok(log[f][i]) /\ Failed(log[f][j])
        /\ DOMAIN singletons[f] # {} /\ resolving_stack[f] # {}
        /\ global_exports[f] # {}
        /\ DictKeys(provider_configs[f]) = Registered(prog[f])
        /\ DictKeys(modules[f]) = ReachableModules(prog[f])

(***************************************************************************)
(* C22  What register_module(root) leaves behind, for an acyclic import    *)
(* graph of valid modules: create returns, the keys of _modules are the    *)
(* modules reachable from the root through imports (the root included),    *)
(* the keys of _provider_configs are the classes in the providers lists of *)
(* those modules, the scope of each config is the scope the class declares *)
(* (Singleton when it declares none), and _global_exports is the set of    *)
(* the classes in the providers lists of the reachable modules declared    *)
(* global, hence a subset of the keys of _provider_configs.                *)
(***************************************************************************)
RegistrationComplete ==
    \A f \in Facades :
        LET p == prog[f]
        IN  /\ (app[f] = "failed") => InvalidModules(p) # {}
            /\ (app[f] = "ready") =>
                  /\ DictKeys(modules[f]) = ReachableModules(p)
                  /\ DictKeys(provider_configs[f]) =
                        UNION {Seq2Set(p.mods[m].providers) : m \in ReachableModules(p)}
                  /\ \A k \in 1..Len(provider_configs[f]) :
                        provider_configs[f][k].val.scope =
                            IF p.scope[provider_configs[f][k].key] = NoScope
                            THEN SINGLETON
                            ELSE p.scope[provider_configs[f][k].key]
                  /\ global_exports[f] =
                        UNION {Seq2Set(p.mods[m].providers) :
                                 m \in {x \in ReachableModules(p) : p.mods[x].is_global}}
                  /\ global_exports[f] \subseteq DictKeys(provider_configs[f])

\* a graph of four modules, two of them global, one without providers; a
\* class that declares no scope and one that declares Transient
RegistrationCompleteWitness ==
    \E f \in Facades :
        /\ app[f] = "ready" /\ Len(modules[f]) = 4
        /\ Cardinality({m \in ReachableModules(prog[f]) : prog[f].mods[m].is_global}) = 2
        /\ global_exports[f] # {} /\ global_exports[f] # DictKeys(provider_configs[f])
        /\ \E c, d \in DictKeys(provider_configs[f]) :
              /\ prog[f].scope[c] = NoScope
              /\ DictGet(provider_configs[f], c).scope = SINGLETON
              /\ DictGet(provider_configs[f], d).scope = TRANSIENT

\* the modules among the first n of the sequence w that list class c
Listing(p, w, n, c) == {k \in 1..n : c \in Seq2Set(p.mods[w[k]].providers)}
\* the greatest element of a non-empty set of numbers
Last(S) == CHOOSE k \in S : \A j \in S : j <= k

(***************************************************************************)
(* C23  The walk of register_module is depth-first in pre-order, imports   *)
(* in declaration order.  With w the pre-order sequence of the import      *)
(* graph from the root (a module, then the whole subtree of its first      *)
(* import, then that of its second import, ...), at every moment of the    *)
(* walk the container holds what the first n calls of w have written,      *)
(* where n is the number of module instances made: the n-th instance is    *)
(* the one of w[n], _modules has the modules of w[1..n], each with the     *)
(* instance of its last visit, and _provider_configs has all providers of  *)
(* w[1..n] (those of w[n] are there before any import of w[n] is walked),  *)
(* each owned by the module of w[1..n] that lists it and was visited last. *)
(* When create returns n is the length of w, so a provider listed by       *)
(* several reachable modules is owned by the one visited last.             *)
(***************************************************************************)
WalkInPreOrder ==
    \A f \in Facades :
        app[f] \in {"booting", "ready"} =>
            LET p == prog[f]
                w == WalkOrder(p, p.root)
                n == ModulesMade(f)
            IN  /\ n <= Len(w)
                /\ app[f] = "ready" => n = Len(w)
                /\ DictKeys(modules[f]) = {w[k] : k \in 1..n}
                /\ \A m \in DictKeys(modules[f]) :
                      DictGet(modules[f], m) = Last({k \in 1..n : w[k] = m})
                /\ DictKeys(provider_configs[f]) =
                      {c \in ClassesOf(p) : Listing(p, w, n, c) # {}}
                /\ \A c \in DictKeys(provider_configs[f]) :
                      DictGet(provider_configs[f], c).module = w[Last(Listing(p, w, n, c))]
                \* the frames of the walk are a path of the import graph, and
                \* the call for import i was made after the one for import i - 1
                /\ \A j \in 1..(Len(walk[f]) - 1) :
                      /\ walk[f][j].i >= 2
                      /\ walk[f][j + 1].module_cls =
                            p.mods[walk[f][j].module_cls].imports[walk[f][j].i - 1]

\* the walk M1, M2, M4, M3, M4 of a diamond is over: class C, listed by M3
\* and by M4, was written by the visits 3, 4 and 5 and is owned by M4
WalkInPreOrderWitness ==
    \E f \in Facades :
        LET p == prog[f]
            w == WalkOrder(p, p.root)
        IN  /\ app[f] = "ready" /\ Len(w) = 5
            /\ \E c \in DictKeys(provider_configs[f]) :
                  /\ Cardinality(Listing(p, w, 5, c)) = 3
                  /\ w[4] # w[5] /\ {4, 5} \subseteq Listing(p, w, 5, c)
                  /\ DictGet(provider_configs[f], c).module = w[5]
                  /\ DictGet(modules[f], w[5]) = 5

\* a module reachable from the root lies on a cycle of imports
ImportCycle(p) ==
    \E m \in ReachableModules(p) : m \in ImportClosure(p, Seq2Set(p.mods[m].imports))

(***************************************************************************)
(* C24  register_module has no guard against cycles of imports.  The walk  *)
(* create starts always ends; for an import graph without a cycle, of      *)
(* valid modules, it ends with a facade.  For an import graph with a cycle *)
(* (a module that imports itself, M1 importing M2 importing M1) create     *)
(* never returns a facade: the walk enters modules that are already        *)
(* registered again and again, each time one call deeper, until the        *)
(* interpreter's recursion limit ends it with RecursionError (or it ends   *)
(* before with the ValueError of a class that is not a module).            *)
(***************************************************************************)
ImportCycleNoFacade ==
    /\ (app[1] = "booting") ~> (app[1] \in {"ready", "failed"})
    /\ [](\A f \in Facades :
            LET p == prog[f]
            IN  /\ ImportCycle(p) => app[f] # "ready"
                /\ (~ImportCycle(p) /\ InvalidModules(p) = {}) => app[f] # "failed"
                /\ (app[f] = "failed" /\ InvalidModules(p) = {}) => raised[f] = RecursionError
                /\ raised[f] = RecursionError =>
                      /\ app[f] = "failed" /\ ImportCycle(p)
                      /\ ModulesMade(f) >= MaxWalk
                      /\ ModulesMade(f) > Len(modules[f]))
    /\ [][\A f \in Facades :
            (Revisit(f) /\ prog[f].mods[WalkTop(f).module_cls].is_module)
            => /\ ModulesMade(f)' = ModulesMade(f) + 1
               /\ walk'[f][Len(walk[f])].i = 1]_vars

\* M1 and M2 import each other: the walk made an instance of M1 and of M2
\* in turn until the chain was MaxWalk calls deep, and create raised
ImportCycleNoFacadeWitness ==
    \E f \in Facades :
        /\ app[f] = "failed" /\ raised[f] = RecursionError
        /\ DictKeys(modules[f]) = {"M1", "M2"}
        /\ ModulesMade(f) = MaxWalk
        /\ InvalidModules(prog[f]) = {}

\* the registered classes of facade f named s, in registration order
Named(f, s) ==
    {k \in 1..Len(provider_configs[f]) :
        ClassName(prog[f], provider_configs[f][k].key) = s}
\* the least element of a non-empty set of numbers
First(S) == CHOOSE k \in S : \A j \in S : k <= j
\* thread t is about to handle a parameter annotated with a string
AtForward(t) ==
    /\ At(t, "create")
    /\ Top(t).i <= Len(prog[chain[t].app].params[Top(t).cls])
    /\ prog[chain[t].app].params[Top(t).cls][Top(t).i].kind = "fwd"

(***************************************************************************)
(* C25  A constructor parameter annotated with a string (forward           *)
(* reference).  When a registered class has that name, _create_instance    *)
(* calls resolve for that class, the very call it makes for a parameter    *)
(* annotated with the class itself: the argument bound is an instance of   *)
(* that class, the cached one when the class is a Singleton, and a cycle   *)
(* closed through the forward reference ends in CircularDependencyError.   *)
(* When no registered class has that name, the resolution fails with       *)
(* "Cannot resolve forward reference" (not "Provider ... not registered"), *)
(* no resolve call is made for the parameter, the requesting class is not  *)
(* cached and the stack is unwound.                                        *)
(***************************************************************************)
ForwardReference ==
    /\ [][\A t \in Threads :
            AtForward(t) =>
               LET f == chain[t].app
                   fr == Top(t)
                   s == prog[f].params[fr.cls][fr.i].ref
               IN  IF Named(f, s) = {}
                   THEN chain'[t].frames =
                          [chain[t].frames EXCEPT ![Depth(t)] =
                             [fr EXCEPT !.exc = UnresolvableForwardReferenceError(s),
                                        !.pc = "finally"]]
                   ELSE chain'[t].frames =
                          Append(chain[t].frames,
                                 Frame(provider_configs[f][First(Named(f, s))].key))]_vars
    /\ [](\A f \in Facades : \A P \in DictKeys(provider_configs[f]) :
            LET params == prog[f].params[P]
            IN  (Len(params) >= 1 /\ params[1].kind = "fwd") =>
                  IF Named(f, params[1].ref) = {}
                  THEN /\ P \notin DOMAIN singletons[f]
                       /\ \A i \in Entries(f) :
                             log[f][i].cls = P =>
                                /\ log[f][i].exc = UnresolvableForwardReferenceError(params[1].ref)
                                /\ log[f][i].exc.msg # "Provider not registered"
                       /\ Quiet => resolving_stack[f] = {}
                  ELSE LET Q == provider_configs[f][First(Named(f, params[1].ref))].key
                       IN  /\ \A n \in 1..Len(heap[f]) :
                                 heap[f][n].cls = P =>
                                    /\ heap[f][n].kwargs[1] # None
                                    /\ ClassOf(heap[f][n].kwargs[1]) = Q
                                    /\ IsSingleton(f, Q) =>
                                          /\ Q \in DOMAIN singletons[f]
                                          /\ heap[f][n].kwargs[1] = singletons[f][Q]
                           /\ (Len(prog[f].params[Q]) >= 1
                                 /\ RefersTo(prog[f], prog[f].params[Q][1], P)) =>
                                 \A i \in Entries(f) :
                                    log[f][i].cls = P =>
                                       log[f][i].exc =
                                          CircularDependencyError(ClassName(prog[f], P)))

\* class B asks for 'ServiceC' and no class of that name is registered:
\* get(B) failed, get(A), which asks for B, failed with the same error
ForwardReferenceWitness ==
    \E f \in Facades : \E P, Q \in DictKeys(provider_configs[f]) :
        /\ Len(log[f]) = 2 /\ Quiet /\ P # Q
        /\ Len(prog[f].params[P]) = 1 /\ prog[f].params[P][1].kind = "fwd"
        /\ Named(f, prog[f].params[P][1].ref) = {}
        /\ log[f][1].cls = P /\ log[f][2].cls = Q
        /\ log[f][1].exc = UnresolvableForwardReferenceError(prog[f].params[P][1].ref)
        /\ log[f][2].exc = log[f][1].exc
        /\ resolving_stack[f] = {} /\ singletons[f] = <<>>

\* the annotation of the parameter resolves to a registered class of
\* facade f
Resolvable(f, param) ==
    \/ param.kind = "cls" /\ DictHas(provider_configs[f], param.ref)
    \/ param.kind = "fwd" /\ Named(f, param.ref) # {}

(***************************************************************************)
(* C26  Only the parameters whose annotation resolves to a registered      *)
(* class are resolved.  A parameter without such an annotation (no         *)
(* annotation, a class that is not registered, a name no registered class  *)
(* carries) is left unbound: no resolve call is made for it, the instance  *)
(* is constructed without that argument, and get(P) succeeds when every    *)
(* such parameter of P has a default and the other parameters of P can be  *)
(* resolved.                                                               *)
(***************************************************************************)
UnresolvableLeftUnbound ==
    \A f \in Facades :
        LET p == prog[f]
        IN  /\ \A t \in Threads : \A j \in 1..(Depth(t) - 1) :
                  chain[t].app = f =>
                     LET fr == chain[t].frames[j]
                     IN  Resolvable(f, p.params[fr.cls][fr.i])
            /\ \A n \in 1..Len(heap[f]) : \A k \in 1..Len(heap[f][n].kwargs) :
                  ~Resolvable(f, p.params[heap[f][n].cls][k]) => heap[f][n].kwargs[k] = None
            /\ \A i \in Entries(f) :
                  LET P == log[f][i].cls
                  IN  ( /\ DictHas(provider_configs[f], P)
                        /\ \A k \in 1..Len(p.params[P]) :
                              IF Resolvable(f, p.params[P][k])
                              THEN \A d \in ParamTarget(p, p.params[P][k]) : Sound(p, d)
                              ELSE p.params[P][k].hasDefault )
                      => Ok(log[f][i])

\* thread u has a resolve frame for cls on facade f that has added cls to
\* the stack and not yet left
Holds(u, f, cls) ==
    /\ chain[u].app = f
    /\ \E k \in 1..Depth(u) :
          chain[u].frames[k].cls = cls /\ chain[u].frames[k].pc \notin {"guard", "add"}
\* the guard of the top frame of thread t raises in this step
Raises(t) ==
    /\ At(t, "guard")
    /\ chain'[t] = Idle \/ Len(chain'[t].frames) < Depth(t)

(***************************************************************************)
(* C27  The cycle guard is sound per call chain only.  Two threads that    *)
(* call get on one facade without a lock share _resolving_stack: in a      *)
(* program without a cycle of constructor dependencies the guard of one    *)
(* thread can raise CircularDependencyError, and when it does the identity *)
(* it found on the stack is one the other thread is resolving, never one   *)
(* of its own call chain.  A call chain never holds an identity twice in   *)
(* such a program, so a guard that consults the identities of its own      *)
(* chain only (a stack per call chain) never raises; nor does the shared   *)
(* guard when the client holds a lock around every get.                    *)
(***************************************************************************)
GuardPerCallChain ==
    /\ [][\A t \in Threads :
            (Raises(t) /\ Acyclic(prog[chain[t].app]))
            => /\ ~Holds(t, chain[t].app, Top(t).cls)
               /\ \E u \in Threads \ {t} : Holds(u, chain[t].app, Top(t).cls)]_vars
    /\ [](\A t \in Threads :
            (chain[t] # Idle /\ Acyclic(prog[chain[t].app]))
            => \A j, k \in 1..Depth(t) :
                  j # k => chain[t].frames[j].cls # chain[t].frames[k].cls)
    /\ [](\A f \in Facades :
            (Mutex(prog[f]) /\ Acyclic(prog[f]))
            => \A i \in Entries(f) : log[f][i].exc.msg # "Circular dependency detected")

\* no lock, no cycle: a get failed with CircularDependencyError, the get
\* of the other thread succeeded
GuardPerCallChainWitness ==
    \E f \in Facades :
        /\ ~Mutex(prog[f]) /\ Acyclic(prog[f]) /\ Quiet
        /\ \E i, j \in Entries(f) :
              /\ log[f][i].exc.msg = "Circular dependency detected"
              /\ Ok(log[f][j])

\* the instances of class P constructed through facade f
InstancesOf(f, P) == {n \in 1..Len(heap[f]) : heap[f][n].cls = P}

(***************************************************************************)
(* C28  Singleton uniqueness needs mutual exclusion.  When the client      *)
(* holds one lock around every get, no two resolutions overlap, a          *)
(* Singleton P is constructed at most once and all successful get(P)       *)
(* return the identical instance.  Without the lock the steps of two       *)
(* threads interleave and two instances of P can be constructed and        *)
(* returned to the two callers; a thread constructs P at most once, so     *)
(* there are never more instances of P than threads.                       *)
(***************************************************************************)
SingletonNeedsMutex ==
    \A f \in Facades : \A P \in ClassesOf(prog[f]) :
        IsSingleton(f, P) =>
            /\ Cardinality(InstancesOf(f, P)) <= Cardinality(Threads)
            /\ Mutex(prog[f]) =>
                  /\ Cardinality(Busy(f)) <= 1
                  /\ Cardinality(InstancesOf(f, P)) <= 1
                  /\ \A i, j \in Entries(f) :
                        (log[f][i].cls = P /\ log[f][j].cls = P /\ Ok(log[f][i]) /\ Ok(log[f][j]))
                        => log[f][i].ret = log[f][j].ret

\* no lock: two gets of the Singleton P succeeded and returned two
\* distinct instances of P
SingletonNeedsMutexWitness ==
    \E f \in Facades : \E i, j \in Entries(f) :
        /\ ~Mutex(prog[f]) /\ Quiet
        /\ log[f][i].cls = log[f][j].cls /\ IsSingleton(f, log[f][i].cls)
        /\ Ok(log[f][i]) /\ Ok(log[f][j])
        /\ log[f][i].ret # log[f][j].ret
        /\ ClassOf(log[f][i].ret) = ClassOf(log[f][j].ret)

====
